---- MODULE Spec2Model ----
(***************************************************************************)
(* github-sentry: the webhook handler (WebHook), the background pipeline   *)
(* (processWebhookAsync) and the command engine (ExecuteCommands,          *)
(* ExecuteScripts, executeCommand) as a state machine.  One pipeline run   *)
(* per trigger; the goroutines of the async phase are separate tasks of    *)
(* the run.  Persistence (RecordTrigger, RecordExecution) and the chat     *)
(* transport (NotifyWithSecret) are calls that may fail.                   *)
(*                                                                         *)
(* The handler modelled is the one that matches cfg.Commands entries on    *)
(* organization and repo and calls the timed executor; the older handler   *)
(* (lookup by full repository name) has the same step order.  The clock    *)
(* runs in SpecTimed only; SpecTwo and SpecTwoFair have two requests in    *)
(* flight at once.                                                         *)
(***************************************************************************)
EXTENDS Integers, Sequences, FiniteSets, TLC

(* ------------------------------ bounds -------------------------------- *)
\* NumTriggers: request slots; MaxSeq, MaxAsync, MaxCmds: longest sequential
\* list, longest async list, most commands of one project; MaxScripts: most
\* scripts in the folder; MaxFaults: most failed persistence / delivery calls
\* in one behaviour.
NumTriggers == 2
MaxSeq == 2
MaxAsync == 2
MaxCmds == 3
MaxScripts == 1
MaxFaults == 1
\* MaxTime: last reading of the clock (it starts at 1).
MaxTime == 2
\* MaxCards: most NotifyWithSecret calls of a caller other than the handler.
MaxCards == 2

(* ------------------------- program constants -------------------------- *)
maxOutputLen == 2000
ZeroTime == 0
StatusOK == 200
StatusBadRequest == 400
StatusInternalServerError == 500

StatusStarted == "started"
StatusSuccess == "success"
StatusFailure == "failure"

(* ------------------------------ strings ------------------------------- *)
\* A text is named by a string; TextLen gives its length in bytes (Go len).
TextLen(s) ==
    CASE s = "" -> 0
      [] s = "out" -> 3
      [] s = "msg" -> 3
      [] s = "exit status 1" -> 13
      [] s = " (FAILED)" -> 9
      [] s = " (skipped - no commands configured)" -> 35
      [] s = "\n\nFailure Reason:\n" -> 18
      [] s = "Script: " -> 8
      [] s = "Error: " -> 7
      [] s = "Output:\n" -> 8
      [] s = "\n" -> 1
      [] s = "...(truncated)" -> 14
      [] s = "001.sh" -> 6
      [] s = "002.sh" -> 6
      [] s = "003.sh" -> 6
      [] s = "big" -> 3
      [] s = "out1500" -> 1500
      [] s = "out2000" -> 2000
      [] s = "out2001" -> 2001
      [] s = "out3000" -> 3000
      [] OTHER -> 1

\* A message is a sequence of parts; a part is the first `upto` bytes of a text.
Part(s) == [txt |-> s, upto |-> TextLen(s)]
Text(s) == << Part(s) >>

Triggers == 1 .. NumTriggers
Cmds == {"", "a", "b"}
SeqCmds == {"", "a"}
SeqsUpTo(S, n) == UNION { [1 .. k -> S] : k \in 0 .. n }

NoProject == [Organization |-> "", Repo |-> "", Sequential |-> <<>>, Async |-> <<>>]
Unreadable == << "unreadable" >>
NoResult == [ScriptName |-> "", Success |-> FALSE, Output |-> "", Error |-> "",
             StartTime |-> ZeroTime, EndTime |-> ZeroTime, Duration |-> 0]
NoID == 0
NoResponse == [code |-> 0, body |-> ""]
Nil == <<>>

(* what a bash process can do: exit 0, or exit non-zero with or without output *)
CmdOutcomes ==
    { [err |-> "", out |-> "out"],
      [err |-> "exit status 1", out |-> "out"],
      [err |-> "exit status 1", out |-> ""] }

\* a command that fails after printing much: outputs below, at and above maxOutputLen
Verbose == "big"
LongOutcomes ==
    { [err |-> "exit status 1", out |-> x] : x \in {"out1500", "out2000", "out2001", "out3000"} }
\* a command that never ends: its process has no outcome
Forever == "sleep"

\* mutant: a command that does not end is killed after a timeout
OutcomesOf_Timeout(command) ==
    IF command = Verbose THEN LongOutcomes
    ELSE IF command = Forever THEN { [err |-> "signal: killed", out |-> ""] }
    ELSE CmdOutcomes

OutcomesOf(command) ==
    IF command = Verbose THEN LongOutcomes
    ELSE IF command = Forever THEN {}
    ELSE CmdOutcomes

VARIABLES
    cfgCommands,    \* cfg.Commands: project name -> CommandsConfig
    clockStep,      \* how far the clock can move between two readings (0: all within one clock granule)
    scriptsFolder,  \* what os.ReadDir(cfg.ScriptsFolder) yields: Unreadable or the sorted NNN.sh list
    event,          \* per trigger: the request handed to WebHook
    pc,             \* per trigger: position of the handler, then of the background goroutine
    response,       \* per trigger: the HTTP response written by the handler
    triggerID,      \* per trigger: id returned by RecordTrigger
    recErr,         \* per trigger: err returned by RecordTrigger ("unset" before the call)
    nextID,         \* the SERIAL sequence of table triggers
    triggersTable,  \* rows of table triggers
    notifs,         \* per trigger: NotifyWithSecret calls made, in order
    project,        \* per trigger: projectCommands matched by the lookup
    usedEngine,     \* per trigger: "none", "commands" (ExecuteCommands) or "scripts" (ExecuteScripts)
    seqIdx,         \* per trigger: index of the sequential command (or script) at hand
    spawnIdx,       \* per trigger: index of the async command the launch loop is at
    invoked,        \* per trigger: the bash processes started so far, as << phase, index >>
    results,        \* per trigger: the results slice
    err,            \* per trigger: the error returned by the engine (Nil = nil)
    task,           \* per trigger: state of the goroutine of each async command
    taskRes,        \* per trigger: result each goroutine holds
    taskLocal,      \* per trigger: the slice value each goroutine read for its append
    asyncResults,   \* per trigger: the asyncResults slice
    mu,             \* per trigger: holder of the mutex (0 = unlocked)
    recIdx,         \* per trigger: index of the result being recorded
    execCalls,      \* per trigger: RecordExecution calls made, in order
    faults,         \* number of infrastructure failures injected so far
    now,            \* the last reading of the process clock (time.Now(), monotonic)
    executionStartTime, \* per trigger: executionStartTime of processWebhookAsync
    startTime       \* per trigger: startTime of the executeCommand / executeScript call at hand

vars == << cfgCommands, clockStep, scriptsFolder, event, pc, response, triggerID, recErr, nextID,
           triggersTable, notifs, project, usedEngine, seqIdx, spawnIdx, invoked, results, err,
           task, taskRes, taskLocal, asyncResults, mu, recIdx, execCalls, faults,
           now, executionStartTime, startTime >>

cfgVars == << cfgCommands, clockStep, scriptsFolder, event >>
engineVars == << usedEngine, seqIdx, spawnIdx, invoked, results, err, task, taskRes, taskLocal, asyncResults, mu >>
dbVars == << triggerID, recErr, nextID, triggersTable, recIdx, execCalls >>
timeVars == << now, executionStartTime, startTime >>

(* --------------------------- configuration ---------------------------- *)
stagingBranch == "staging"

Entry(org, repo, seq, async) ==
    [Organization |-> org, Repo |-> repo, Sequential |-> seq, Async |-> async]

\* cfg.Commands as LoadConfig accepts it: every entry has organization and repo set.
Configs ==
    { [n \in {} |-> NoProject] } \cup
    { [n \in {"p1"} |-> Entry("o1", "r1", sa[1], sa[2])] :
        sa \in { x \in SeqsUpTo(SeqCmds, MaxSeq) \X SeqsUpTo(Cmds, MaxAsync) :
                    Len(x[1]) + Len(x[2]) <= MaxCmds } } \cup
    { [n \in {"p1"} |-> Entry("o1", "r1", seq, <<>>)] : seq \in { << Verbose >>, << "a", Verbose >> } }

ScriptName(i) == IF i = 1 THEN "001.sh" ELSE IF i = 2 THEN "002.sh" ELSE "003.sh"
Folders == { Unreadable } \cup { [i \in 1 .. k |-> ScriptName(i)] : k \in 0 .. MaxScripts }

\* the requests that reach the handler
Identities == { << "o1", "r1" >>, << "o1", "r2" >>, << "", "" >> }
Events ==
    { [payload |-> "invalid", kind |-> "push", branch |-> stagingBranch, head |-> TRUE, org |-> "o1", repo |-> "r1"],
      [payload |-> "unparsable", kind |-> "push", branch |-> stagingBranch, head |-> TRUE, org |-> "o1", repo |-> "r1"],
      [payload |-> "ok", kind |-> "ping", branch |-> stagingBranch, head |-> TRUE, org |-> "o1", repo |-> "r1"],
      [payload |-> "ok", kind |-> "push", branch |-> "dev", head |-> TRUE, org |-> "o1", repo |-> "r1"],
      [payload |-> "ok", kind |-> "push", branch |-> stagingBranch, head |-> FALSE, org |-> "o1", repo |-> "r1"] }
    \cup
    { [payload |-> "ok", kind |-> "push", branch |-> stagingBranch, head |-> TRUE, org |-> id[1], repo |-> id[2]] :
        id \in Identities }

commitMessage == Text("msg")

\* orgName, repoName and fullRepoName as WebHook derives them from the event
OrgName(e) == IF e.org = "" /\ e.repo = "" THEN "unknown" ELSE e.org
RepoName(e) == IF e.org = "" /\ e.repo = "" THEN "repo" ELSE e.repo
FullRepoName(e) == << OrgName(e), "/", RepoName(e) >>

UsesScripts(c) ==
    \E n \in DOMAIN c : Len(c[n].Sequential) = 0 /\ Len(c[n].Async) = 0

InitRuns(active) ==
    /\ pc = [t \in Triggers |-> IF t \in active THEN "arrive" ELSE "absent"]
    /\ response = [t \in Triggers |-> NoResponse]
    /\ triggerID = [t \in Triggers |-> NoID]
    /\ recErr = [t \in Triggers |-> "unset"]
    /\ nextID = 1
    /\ triggersTable = <<>>
    /\ notifs = [t \in Triggers |-> <<>>]
    /\ project = [t \in Triggers |-> NoProject]
    /\ usedEngine = [t \in Triggers |-> "none"]
    /\ seqIdx = [t \in Triggers |-> 0]
    /\ spawnIdx = [t \in Triggers |-> 0]
    /\ invoked = [t \in Triggers |-> {}]
    /\ results = [t \in Triggers |-> <<>>]
    /\ err = [t \in Triggers |-> Nil]
    /\ task = [t \in Triggers |-> <<>>]
    /\ taskRes = [t \in Triggers |-> <<>>]
    /\ taskLocal = [t \in Triggers |-> <<>>]
    /\ asyncResults = [t \in Triggers |-> <<>>]
    /\ mu = [t \in Triggers |-> 0]
    /\ recIdx = [t \in Triggers |-> 0]
    /\ execCalls = [t \in Triggers |-> <<>>]
    /\ faults = 0
    /\ now = 1
    /\ executionStartTime = [t \in Triggers |-> ZeroTime]
    /\ startTime = [t \in Triggers |-> ZeroTime]

\* One request (slot 1; the other slots stay "absent"); the scripts folder
\* matters only to a configuration that falls back to it; the whole run falls
\* within one granule of the clock.
Init ==
    /\ cfgCommands \in Configs
    /\ clockStep = 0
    /\ scriptsFolder \in Folders
    /\ (~UsesScripts(cfgCommands) => scriptsFolder = Unreadable)
    /\ event \in [Triggers -> Events]
    /\ \A t \in Triggers : t # 1 => event[t] = event[1]
    /\ InitRuns({1})

\* One request with a running clock, for projects of two commands at most.
TimedConfigs ==
    { [n \in {} |-> NoProject] } \cup
    { [n \in {"p1"} |-> Entry("o1", "r1", sa[1], sa[2])] :
        sa \in { << <<>>, <<>> >>, << << "a", "a" >>, <<>> >>,
                 << << "a" >>, << "b" >> >>, << <<>>, << "a", "b" >> >> } }

InitTimed ==
    /\ cfgCommands \in TimedConfigs
    /\ clockStep = 1
    /\ scriptsFolder \in Folders
    /\ (~UsesScripts(cfgCommands) => scriptsFolder = Unreadable)
    /\ event \in [Triggers -> Events]
    /\ \A t \in Triggers : t # 1 => event[t] = event[1]
    /\ InitRuns({1})

\* Concurrent requests, one per slot, for two projects: the first may hold a
\* command that never ends, the second is short or falls back to the scripts.
TwoConfigs ==
    { [n \in {"p1", "p2"} |-> IF n = "p1" THEN a ELSE b] :
        a \in { Entry("o1", "r1", << Forever >>, <<>>),
                Entry("o1", "r1", <<>>, << Forever, "a" >>),
                Entry("o1", "r1", << "a" >>, << "", "b" >>) },
        b \in { Entry("o1", "r2", << "a" >>, <<>>),
                Entry("o1", "r2", <<>>, <<>>) } }

Pushes ==
    { [payload |-> "ok", kind |-> "push", branch |-> stagingBranch, head |-> TRUE, org |-> id[1], repo |-> id[2]] :
        id \in Identities }

InitTwo ==
    /\ cfgCommands \in TwoConfigs
    /\ clockStep = 0
    /\ scriptsFolder \in Folders
    /\ (~UsesScripts(cfgCommands) => scriptsFolder = Unreadable)
    /\ event \in [Triggers -> Pushes]
    /\ event[1].repo = "r1"
    /\ \A t \in Triggers : t > 2 => event[t] = event[1]
    /\ InitRuns({1, 2})

(* ------------------------------ executor ------------------------------ *)
\* executeCommand: the result of one bash run that ended as o
\* mutant: an empty captured output is left empty on failure
executeCommand_RawOutput(command, o, start, end) ==
    [ScriptName |-> command,
     Success |-> (o.err = ""),
     Output |-> o.out,
     Error |-> o.err,
     StartTime |-> start,
     EndTime |-> end,
     Duration |-> end - start]

\* mutant: the duration is the end reading itself
executeCommand_NoSub(command, o, start, end) ==
    [ScriptName |-> command,
     Success |-> (o.err = ""),
     Output |-> IF o.err # "" /\ o.out = "" THEN o.err ELSE o.out,
     Error |-> o.err,
     StartTime |-> start,
     EndTime |-> end,
     Duration |-> end]

\* mutant: the EndTime field of the result is never set
executeCommand_NoEnd(command, o, start, end) ==
    [ScriptName |-> command,
     Success |-> (o.err = ""),
     Output |-> IF o.err # "" /\ o.out = "" THEN o.err ELSE o.out,
     Error |-> o.err,
     StartTime |-> start,
     EndTime |-> ZeroTime,
     Duration |-> end - start]

executeCommand(command, o, start, end) ==
    [ScriptName |-> command,
     Success |-> (o.err = ""),
     Output |-> IF o.err # "" /\ o.out = "" THEN o.err ELSE o.out,
     Error |-> o.err,
     StartTime |-> start,
     EndTime |-> end,
     Duration |-> end - start]

\* GetScripts: the paths of the NNN.sh files of the folder, sorted
GetScripts(folder) == [i \in 1 .. Len(folder) |-> << "scripts/", folder[i] >>]
Base(path) == path[Len(path)]

\* executeScript: as executeCommand, named by the file's base name
executeScript(scriptPath, o, start, end) ==
    [ScriptName |-> Base(scriptPath),
     Success |-> (o.err = ""),
     Output |-> IF o.err # "" /\ o.out = "" THEN o.err ELSE o.out,
     Error |-> o.err,
     StartTime |-> start,
     EndTime |-> end,
     Duration |-> end - start]

(* ------------------------------- clock -------------------------------- *)
\* what the next time.Now() can return: the clock never runs backwards
Readings == { n \in now .. (now + clockStep) : n <= MaxTime }

CommandFailed(r) == << "command failed: ", r.ScriptName, " - ", r.Error >>
ScriptFailed(r) == << "script ", r.ScriptName, " failed: ", r.Error >>
GetScriptsFailed == << "failed to get scripts: ", "failed to read scripts folder" >>

\* mutant: the loop goes to the last command left, not to the next one
NextNonEmpty_Last(list, i) ==
    IF \E j \in i .. Len(list) : list[j] # ""
    THEN CHOOSE j \in i .. Len(list) : list[j] # "" /\ \A k \in (j + 1) .. Len(list) : list[k] = ""
    ELSE Len(list) + 1

\* mutant: empty command strings are run like any other
NextNonEmpty_NoSkip(list, i) == IF i <= Len(list) THEN i ELSE Len(list) + 1

\* index of the first non-empty command at or after i (Len + 1 when there is none)
NextNonEmpty(list, i) ==
    IF \E j \in i .. Len(list) : list[j] # ""
    THEN CHOOSE j \in i .. Len(list) : list[j] # "" /\ \A k \in i .. (j - 1) : list[k] = ""
    ELSE Len(list) + 1

(* ---------------------------- notification ---------------------------- *)
\* the rest of the trigger identity handed to every card
author == "dev"
commitID == "c1"
commitTime == 1

\* mutant: the card shows the time at which it is built, not the commit's
buildCard_Now(status, repoName, author_, commitID_, message, branch, commitTime_) ==
    LET repo == IF repoName = "" THEN "unknown/repo" ELSE repoName
        who == IF author_ = "" THEN "unknown" ELSE author_
        emoji == CASE status = StatusStarted -> "rocket"
                   [] status = StatusSuccess -> "check"
                   [] status = StatusFailure -> "siren"
                   [] OTHER -> "info"
        statusText == CASE status = StatusStarted -> "Workflow Started"
                        [] status = StatusSuccess -> "Success"
                        [] status = StatusFailure -> "Failure"
                        [] OTHER -> "Notification"
    IN
    [template |-> CASE status = StatusSuccess -> "green"
                    [] status = StatusFailure -> "red"
                    [] OTHER -> "blue",
     title |-> IF branch # "" THEN << emoji, " ", repo, " - ", branch >> ELSE << emoji, " ", repo >>,
     elements |-> << << "**Status:** ", statusText, "**Author:** ", who, "**Branch:** ", branch >>,
                     << "**Commit ID:** ", commitID_, "**Time:** ", now >>,
                     << "**Commit Message:**", message >> >>]

\* mutant: an empty repository name and an empty author are left empty
buildCard_NoDefaults(status, repoName, author_, commitID_, message, branch, commitTime_) ==
    LET repo == repoName
        who == author_
        emoji == CASE status = StatusStarted -> "rocket"
                   [] status = StatusSuccess -> "check"
                   [] status = StatusFailure -> "siren"
                   [] OTHER -> "info"
        statusText == CASE status = StatusStarted -> "Workflow Started"
                        [] status = StatusSuccess -> "Success"
                        [] status = StatusFailure -> "Failure"
                        [] OTHER -> "Notification"
    IN
    [template |-> CASE status = StatusSuccess -> "green"
                    [] status = StatusFailure -> "red"
                    [] OTHER -> "blue",
     title |-> IF branch # "" THEN << emoji, " ", repo, " - ", branch >> ELSE << emoji, " ", repo >>,
     elements |-> << << "**Status:** ", statusText, "**Author:** ", who, "**Branch:** ", branch >>,
                     << "**Commit ID:** ", commitID_, "**Time:** ", commitTime_ >>,
                     << "**Commit Message:**", message >> >>]

\* buildCard: header colour and title, then the status, commit and message blocks
buildCard(status, repoName, author_, commitID_, message, branch, commitTime_) ==
    LET repo == IF repoName = "" THEN "unknown/repo" ELSE repoName
        who == IF author_ = "" THEN "unknown" ELSE author_
        emoji == CASE status = StatusStarted -> "rocket"
                   [] status = StatusSuccess -> "check"
                   [] status = StatusFailure -> "siren"
                   [] OTHER -> "info"
        statusText == CASE status = StatusStarted -> "Workflow Started"
                        [] status = StatusSuccess -> "Success"
                        [] status = StatusFailure -> "Failure"
                        [] OTHER -> "Notification"
    IN
    [template |-> CASE status = StatusSuccess -> "green"
                    [] status = StatusFailure -> "red"
                    [] OTHER -> "blue",
     title |-> IF branch # "" THEN << emoji, " ", repo, " - ", branch >> ELSE << emoji, " ", repo >>,
     elements |-> << << "**Status:** ", statusText, "**Author:** ", who, "**Branch:** ", branch >>,
                     << "**Commit ID:** ", commitID_, "**Time:** ", commitTime_ >>,
                     << "**Commit Message:**", message >> >>]

\* one NotifyWithSecret call: the card's status, repository and message, the card
\* built from them, and whether Feishu took it
Notification(status, repo, message, ok) ==
    [status |-> status, repo |-> repo, message |-> message, delivered |-> ok,
     card |-> buildCard(status, repo, author, commitID, message, stagingBranch, commitTime)]

(* -------------------------- execution timing -------------------------- *)
\* mutant: the end of the last result is taken for the completion time
executionEndTime_Last(res, clock) ==
    IF Len(res) > 0 THEN res[Len(res)].EndTime ELSE clock

\* the latest EndTime among res[1..k], found as the loop finds it
RECURSIVE LatestEnd(_, _)
LatestEnd(res, k) ==
    IF k = 1 THEN res[1].EndTime
    ELSE LET e == LatestEnd(res, k - 1) IN
         IF res[k].EndTime > e THEN res[k].EndTime ELSE e

\* executionEndTime of processWebhookAsync; clock is what time.Now() returns
executionEndTime(res, clock) ==
    IF Len(res) > 0 THEN LatestEnd(res, Len(res)) ELSE clock

totalDuration(res, clock, start) == executionEndTime(res, clock) - start

\* allCompleted of processWebhookAsync: no result has a zero EndTime (a false
\* value is only logged)
allCompleted(res) == \A i \in DOMAIN res : res[i].EndTime # ZeroTime

\* mutant: an output of exactly maxOutputLen bytes is cut too
Truncate_AtLimit(output) ==
    IF TextLen(output) >= maxOutputLen
    THEN << [txt |-> output, upto |-> maxOutputLen], Part("...(truncated)") >>
    ELSE Text(output)

Truncate(output) ==
    IF TextLen(output) > maxOutputLen
    THEN << [txt |-> output, upto |-> maxOutputLen], Part("...(truncated)") >>
    ELSE Text(output)

\* mutant: the reason block is taken from the first result, failed or not
FirstFailed_First(res) == IF Len(res) > 0 THEN 1 ELSE 0

FirstFailed(res) ==
    IF \E i \in 1 .. Len(res) : ~res[i].Success
    THEN CHOOSE i \in 1 .. Len(res) : ~res[i].Success /\ \A k \in 1 .. (i - 1) : res[k].Success
    ELSE 0

\* mutant: the failure message never gets a reason block
FailureMessage_Bare(msg, res) == msg \o Text(" (FAILED)")

\* failureMessage of processWebhookAsync
FailureMessage(msg, res) ==
    IF FirstFailed(res) = 0
    THEN msg \o Text(" (FAILED)")
    ELSE LET r == res[FirstFailed(res)] IN
         msg \o Text(" (FAILED)") \o Text("\n\nFailure Reason:\n") \o
         Text("Script: ") \o Text(r.ScriptName) \o Text("\n") \o
         Text("Error: ") \o Text(r.Error) \o Text("\n") \o
         Text("Output:\n") \o Truncate(r.Output)

SkippedMessage(msg) == msg \o Text(" (skipped - no commands configured)")

\* an infrastructure call succeeds, or fails while the fault budget lasts
Outcome(ok) ==
    /\ ok \in BOOLEAN
    /\ (~ok => faults < MaxFaults)
    /\ faults' = IF ok THEN faults ELSE faults + 1

(* ------------------------------ WebHook ------------------------------- *)
\* mutant: the branch of the push is not compared with cfg.StagingBranch
Gate_AnyBranch(t) ==
    /\ pc[t] = "arrive"
    /\ LET e == event[t] IN
       CASE e.payload = "invalid" ->
              /\ response' = [response EXCEPT ![t] = [code |-> StatusBadRequest, body |-> "invalid payload"]]
              /\ pc' = [pc EXCEPT ![t] = "rejected"]
         [] e.payload = "unparsable" ->
              /\ response' = [response EXCEPT ![t] = [code |-> StatusBadRequest, body |-> "invalid event"]]
              /\ pc' = [pc EXCEPT ![t] = "rejected"]
         [] e.payload = "ok" /\ e.kind # "push" ->
              /\ response' = [response EXCEPT ![t] = [code |-> StatusOK, body |-> "event ignored"]]
              /\ pc' = [pc EXCEPT ![t] = "ignored"]
         [] e.payload = "ok" /\ e.kind = "push" /\ ~e.head ->
              /\ response' = [response EXCEPT ![t] = [code |-> StatusOK, body |-> "no head commit"]]
              /\ pc' = [pc EXCEPT ![t] = "ignored"]
         [] OTHER ->
              /\ response' = response
              /\ pc' = [pc EXCEPT ![t] = "accepted"]
    /\ UNCHANGED << cfgVars, timeVars, engineVars, dbVars, notifs, project, faults >>

\* payload validation, event parsing, push / branch / head-commit filter
Gate(t) ==
    /\ pc[t] = "arrive"
    /\ LET e == event[t] IN
       CASE e.payload = "invalid" ->
              /\ response' = [response EXCEPT ![t] = [code |-> StatusBadRequest, body |-> "invalid payload"]]
              /\ pc' = [pc EXCEPT ![t] = "rejected"]
         [] e.payload = "unparsable" ->
              /\ response' = [response EXCEPT ![t] = [code |-> StatusBadRequest, body |-> "invalid event"]]
              /\ pc' = [pc EXCEPT ![t] = "rejected"]
         [] e.payload = "ok" /\ e.kind # "push" ->
              /\ response' = [response EXCEPT ![t] = [code |-> StatusOK, body |-> "event ignored"]]
              /\ pc' = [pc EXCEPT ![t] = "ignored"]
         [] e.payload = "ok" /\ e.kind = "push" /\ e.branch # stagingBranch ->
              /\ response' = [response EXCEPT ![t] = [code |-> StatusOK, body |-> "branch ignored"]]
              /\ pc' = [pc EXCEPT ![t] = "ignored"]
         [] e.payload = "ok" /\ e.kind = "push" /\ e.branch = stagingBranch /\ ~e.head ->
              /\ response' = [response EXCEPT ![t] = [code |-> StatusOK, body |-> "no head commit"]]
              /\ pc' = [pc EXCEPT ![t] = "ignored"]
         [] OTHER ->
              /\ response' = response
              /\ pc' = [pc EXCEPT ![t] = "accepted"]
    /\ UNCHANGED << cfgVars, timeVars, engineVars, dbVars, notifs, project, faults >>

\* mutant: the handler goes on to the trigger record without the "started" card
SendStarted_Missing(t) ==
    /\ pc[t] = "accepted"
    /\ pc' = [pc EXCEPT ![t] = "notified"]
    /\ UNCHANGED << cfgVars, timeVars, engineVars, dbVars, response, project, notifs, faults >>

\* mutant: an undelivered "started" card ends the request with an error
SendStarted_Blocking(t) ==
    /\ pc[t] = "accepted"
    /\ \E ok \in BOOLEAN :
         /\ Outcome(ok)
         /\ notifs' = [notifs EXCEPT ![t] =
                Append(@, Notification(StatusStarted, FullRepoName(event[t]), commitMessage, ok))]
         /\ pc' = [pc EXCEPT ![t] = IF ok THEN "notified" ELSE "aborted"]
         /\ response' = [response EXCEPT ![t] =
                IF ok THEN @ ELSE [code |-> StatusInternalServerError, body |-> "internal error"]]
    /\ UNCHANGED << cfgVars, timeVars, engineVars, dbVars, project >>

\* the "started" card, sent before anything else; a delivery error is only logged
SendStarted(t) ==
    /\ pc[t] = "accepted"
    /\ \E ok \in BOOLEAN :
         /\ Outcome(ok)
         /\ notifs' = [notifs EXCEPT ![t] =
                Append(@, Notification(StatusStarted, FullRepoName(event[t]), commitMessage, ok))]
    /\ pc' = [pc EXCEPT ![t] = "notified"]
    /\ UNCHANGED << cfgVars, timeVars, engineVars, dbVars, response, project >>

\* mutant: the error of RecordTrigger is logged and the handler goes on (no return)
RecordTrigger_NoAbort(t) ==
    /\ pc[t] = "notified"
    /\ \E ok \in BOOLEAN :
         /\ Outcome(ok)
         /\ IF ok
            THEN /\ triggerID' = [triggerID EXCEPT ![t] = nextID]
                 /\ recErr' = [recErr EXCEPT ![t] = "nil"]
                 /\ nextID' = nextID + 1
                 /\ triggersTable' = Append(triggersTable, [id |-> nextID, trigger |-> t])
            ELSE /\ recErr' = [recErr EXCEPT ![t] = "error"]
                 /\ UNCHANGED << triggerID, nextID, triggersTable >>
    /\ pc' = [pc EXCEPT ![t] = "recorded"]
    /\ UNCHANGED << cfgVars, timeVars, engineVars, recIdx, execCalls, notifs, project, response >>

\* database.RecordTrigger; on error the handler answers 500 and returns
RecordTrigger(t) ==
    /\ pc[t] = "notified"
    /\ \E ok \in BOOLEAN :
         /\ Outcome(ok)
         /\ IF ok
            THEN /\ triggerID' = [triggerID EXCEPT ![t] = nextID]
                 /\ recErr' = [recErr EXCEPT ![t] = "nil"]
                 /\ nextID' = nextID + 1
                 /\ triggersTable' = Append(triggersTable, [id |-> nextID, trigger |-> t])
                 /\ response' = response
                 /\ pc' = [pc EXCEPT ![t] = "recorded"]
            ELSE /\ response' = [response EXCEPT ![t] =
                        [code |-> StatusInternalServerError, body |-> "failed to record trigger"]]
                 /\ pc' = [pc EXCEPT ![t] = "aborted"]
                 /\ recErr' = [recErr EXCEPT ![t] = "error"]
                 /\ UNCHANGED << triggerID, nextID, triggersTable >>
    /\ UNCHANGED << cfgVars, timeVars, engineVars, recIdx, execCalls, notifs, project >>

\* mutant: the acknowledgement depends on the delivery of the "started" card
Respond_IfDelivered(t) ==
    /\ pc[t] = "recorded"
    /\ response' = [response EXCEPT ![t] =
           IF notifs[t][1].delivered
           THEN [code |-> StatusOK, body |-> "webhook received"]
           ELSE [code |-> StatusInternalServerError, body |-> "internal error"]]
    /\ pc' = [pc EXCEPT ![t] = "acked"]
    /\ UNCHANGED << cfgVars, timeVars, engineVars, dbVars, notifs, project, faults >>

\* c.String(http.StatusOK, "webhook received")
Respond(t) ==
    /\ pc[t] = "recorded"
    /\ response' = [response EXCEPT ![t] = [code |-> StatusOK, body |-> "webhook received"]]
    /\ pc' = [pc EXCEPT ![t] = "acked"]
    /\ UNCHANGED << cfgVars, timeVars, engineVars, dbVars, notifs, project, faults >>

\* mutant: the background task is started before the answer is written
Dispatch_BeforeAck(t) ==
    /\ pc[t] \in {"recorded", "acked"}
    /\ pc' = [pc EXCEPT ![t] = "lookup"]
    /\ UNCHANGED << cfgVars, timeVars, engineVars, dbVars, response, notifs, project, faults >>

\* go processWebhookAsync(...); the handler returns
Dispatch(t) ==
    /\ pc[t] = "acked"
    /\ pc' = [pc EXCEPT ![t] = "lookup"]
    /\ UNCHANGED << cfgVars, timeVars, engineVars, dbVars, response, notifs, project, faults >>


(* ------------------------ processWebhookAsync ------------------------- *)
\* the entries of cfg.Commands whose organization and repo equal the trigger's
Matches(t) ==
    { n \in DOMAIN cfgCommands :
        /\ cfgCommands[n].Organization = OrgName(event[t])
        /\ cfgCommands[n].Repo = RepoName(event[t]) }

\* mutant: no "if !found" branch; the zero-valued projectCommands goes on to execution
Lookup_NoSkip(t) ==
    /\ pc[t] = "lookup"
    /\ IF Matches(t) = {}
       THEN project' = project
       ELSE \E n \in Matches(t) : project' = [project EXCEPT ![t] = cfgCommands[n]]
    /\ pc' = [pc EXCEPT ![t] = "exec"]
    /\ UNCHANGED << cfgVars, timeVars, engineVars, dbVars, response, notifs, faults >>

\* the range loop over cfg.Commands (Go map order: any matching entry may be met first)
Lookup(t) ==
    /\ pc[t] = "lookup"
    /\ IF Matches(t) = {}
       THEN /\ pc' = [pc EXCEPT ![t] = "skip"]
            /\ project' = project
       ELSE \E n \in Matches(t) :
            /\ project' = [project EXCEPT ![t] = cfgCommands[n]]
            /\ pc' = [pc EXCEPT ![t] = "exec"]
    /\ UNCHANGED << cfgVars, timeVars, engineVars, dbVars, response, notifs, faults >>

\* if !found: the "skipped" success card, then return
NotifySkipped(t) ==
    /\ pc[t] = "skip"
    /\ \E ok \in BOOLEAN :
         /\ Outcome(ok)
         /\ notifs' = [notifs EXCEPT ![t] =
                Append(@, Notification(StatusSuccess, FullRepoName(event[t]), SkippedMessage(commitMessage), ok))]
    /\ pc' = [pc EXCEPT ![t] = "done"]
    /\ UNCHANGED << cfgVars, timeVars, engineVars, dbVars, response, project >>

\* the positions of a run between the engine call and its return
ExecutingAt == {"scripts", "scriptRun", "seq", "seqRun", "async", "spawn", "wait"}

\* mutant: a run does not start executing while another run is executing
StartExecution_Exclusive(t) ==
    /\ pc[t] = "exec"
    /\ \A u \in Triggers \ {t} : pc[u] \notin ExecutingAt
    /\ \E n \in Readings :
         /\ now' = n
         /\ executionStartTime' = [executionStartTime EXCEPT ![t] = n]
    /\ IF Len(project[t].Sequential) > 0 \/ Len(project[t].Async) > 0
       THEN /\ usedEngine' = [usedEngine EXCEPT ![t] = "commands"]
            /\ seqIdx' = [seqIdx EXCEPT ![t] = 1]
            /\ pc' = [pc EXCEPT ![t] = "seq"]
            /\ UNCHANGED << err, recIdx >>
       ELSE /\ usedEngine' = [usedEngine EXCEPT ![t] = "scripts"]
            /\ IF scriptsFolder = Unreadable
               THEN /\ err' = [err EXCEPT ![t] = GetScriptsFailed]
                    /\ recIdx' = [recIdx EXCEPT ![t] = 1]
                    /\ pc' = [pc EXCEPT ![t] = "record"]
                    /\ seqIdx' = seqIdx
               ELSE IF Len(GetScripts(scriptsFolder)) = 0
               THEN /\ recIdx' = [recIdx EXCEPT ![t] = 1]
                    /\ pc' = [pc EXCEPT ![t] = "record"]
                    /\ UNCHANGED << err, seqIdx >>
               ELSE /\ seqIdx' = [seqIdx EXCEPT ![t] = 1]
                    /\ pc' = [pc EXCEPT ![t] = "scripts"]
                    /\ UNCHANGED << err, recIdx >>
    /\ UNCHANGED << cfgVars, startTime, spawnIdx, invoked, results, task, taskRes, taskLocal, asyncResults, mu,
                    triggerID, recErr, nextID, triggersTable, execCalls, response, notifs, project, faults >>

\* mutant: a matched entry without commands is treated like no match
StartExecution_SkipEmpty(t) ==
    /\ pc[t] = "exec"
    /\ \E n \in Readings :
         /\ now' = n
         /\ executionStartTime' = [executionStartTime EXCEPT ![t] = n]
    /\ IF Len(project[t].Sequential) > 0 \/ Len(project[t].Async) > 0
       THEN /\ usedEngine' = [usedEngine EXCEPT ![t] = "commands"]
            /\ seqIdx' = [seqIdx EXCEPT ![t] = 1]
            /\ pc' = [pc EXCEPT ![t] = "seq"]
            /\ UNCHANGED << err, recIdx >>
       ELSE /\ pc' = [pc EXCEPT ![t] = "skip"]
            /\ UNCHANGED << usedEngine, err, recIdx, seqIdx >>
    /\ UNCHANGED << cfgVars, startTime, spawnIdx, invoked, results, task, taskRes, taskLocal, asyncResults, mu,
                    triggerID, recErr, nextID, triggersTable, execCalls, response, notifs, project, faults >>

\* the choice between ExecuteCommands and the deprecated ExecuteScripts,
\* with ExecuteScripts' GetScripts call and its empty-folder return
StartExecution(t) ==
    /\ pc[t] = "exec"
    /\ \E n \in Readings :
         /\ now' = n
         /\ executionStartTime' = [executionStartTime EXCEPT ![t] = n]
    /\ IF Len(project[t].Sequential) > 0 \/ Len(project[t].Async) > 0
       THEN /\ usedEngine' = [usedEngine EXCEPT ![t] = "commands"]
            /\ seqIdx' = [seqIdx EXCEPT ![t] = 1]
            /\ pc' = [pc EXCEPT ![t] = "seq"]
            /\ UNCHANGED << err, recIdx >>
       ELSE /\ usedEngine' = [usedEngine EXCEPT ![t] = "scripts"]
            /\ IF scriptsFolder = Unreadable
               THEN /\ err' = [err EXCEPT ![t] = GetScriptsFailed]
                    /\ recIdx' = [recIdx EXCEPT ![t] = 1]
                    /\ pc' = [pc EXCEPT ![t] = "record"]
                    /\ seqIdx' = seqIdx
               ELSE IF Len(GetScripts(scriptsFolder)) = 0
               THEN /\ recIdx' = [recIdx EXCEPT ![t] = 1]
                    /\ pc' = [pc EXCEPT ![t] = "record"]
                    /\ UNCHANGED << err, seqIdx >>
               ELSE /\ seqIdx' = [seqIdx EXCEPT ![t] = 1]
                    /\ pc' = [pc EXCEPT ![t] = "scripts"]
                    /\ UNCHANGED << err, recIdx >>
    /\ UNCHANGED << cfgVars, startTime, spawnIdx, invoked, results, task, taskRes, taskLocal, asyncResults, mu,
                    triggerID, recErr, nextID, triggersTable, execCalls, response, notifs, project, faults >>

(* -------------------- ExecuteScripts (deprecated) --------------------- *)
ScriptStart(t) ==
    /\ pc[t] = "scripts"
    /\ \E n \in Readings :
         /\ now' = n
         /\ startTime' = [startTime EXCEPT ![t] = n]
    /\ pc' = [pc EXCEPT ![t] = "scriptRun"]
    /\ invoked' = [invoked EXCEPT ![t] = @ \cup { << "script", seqIdx[t] >> }]
    /\ UNCHANGED << cfgVars, executionStartTime, usedEngine, seqIdx, spawnIdx, results, err, task, taskRes, taskLocal,
                    asyncResults, mu, dbVars, response, notifs, project, faults >>

ScriptFinish(t) ==
    /\ pc[t] = "scriptRun"
    /\ \E o \in CmdOutcomes, n \in Readings :
         LET r == executeScript(GetScripts(scriptsFolder)[seqIdx[t]], o, startTime[t], n) IN
         /\ now' = n
         /\ results' = [results EXCEPT ![t] = Append(@, r)]
         /\ IF ~r.Success
            THEN /\ err' = [err EXCEPT ![t] = ScriptFailed(r)]
                 /\ recIdx' = [recIdx EXCEPT ![t] = 1]
                 /\ pc' = [pc EXCEPT ![t] = "record"]
                 /\ seqIdx' = seqIdx
            ELSE IF seqIdx[t] = Len(scriptsFolder)
            THEN /\ recIdx' = [recIdx EXCEPT ![t] = 1]
                 /\ pc' = [pc EXCEPT ![t] = "record"]
                 /\ UNCHANGED << err, seqIdx >>
            ELSE /\ seqIdx' = [seqIdx EXCEPT ![t] = @ + 1]
                 /\ pc' = [pc EXCEPT ![t] = "scripts"]
                 /\ UNCHANGED << err, recIdx >>
    /\ UNCHANGED << cfgVars, executionStartTime, startTime, usedEngine, spawnIdx, invoked, task, taskRes, taskLocal, asyncResults, mu,
                    triggerID, recErr, nextID, triggersTable, execCalls, response, notifs, project, faults >>

(* -------------------------- ExecuteCommands --------------------------- *)
\* sequential loop: skip empty strings, start the next command, or leave the loop
SeqStart(t) ==
    /\ pc[t] = "seq"
    /\ LET j == NextNonEmpty(project[t].Sequential, seqIdx[t]) IN
       /\ seqIdx' = [seqIdx EXCEPT ![t] = j]
       /\ pc' = [pc EXCEPT ![t] = IF j <= Len(project[t].Sequential) THEN "seqRun" ELSE "async"]
       /\ invoked' = [invoked EXCEPT ![t] =
              IF j <= Len(project[t].Sequential) THEN @ \cup { << "seq", j >> } ELSE @]
       /\ IF j <= Len(project[t].Sequential)
          THEN \E n \in Readings :
                 /\ now' = n
                 /\ startTime' = [startTime EXCEPT ![t] = n]
          ELSE UNCHANGED << now, startTime >>
    /\ UNCHANGED << cfgVars, executionStartTime, usedEngine, spawnIdx, results, err, task, taskRes, taskLocal,
                    asyncResults, mu, dbVars, response, notifs, project, faults >>

\* mutant: the loop does not stop on a failed command
SeqFinish_NoStop(t) ==
    /\ pc[t] = "seqRun"
    /\ \E o \in OutcomesOf(project[t].Sequential[seqIdx[t]]), n \in Readings :
         LET r == executeCommand(project[t].Sequential[seqIdx[t]], o, startTime[t], n) IN
         /\ now' = n
         /\ results' = [results EXCEPT ![t] = Append(@, r)]
         /\ seqIdx' = [seqIdx EXCEPT ![t] = @ + 1]
         /\ pc' = [pc EXCEPT ![t] = "seq"]
         /\ UNCHANGED << err, recIdx >>
    /\ UNCHANGED << cfgVars, executionStartTime, startTime, usedEngine, spawnIdx, invoked, task, taskRes, taskLocal, asyncResults, mu,
                    triggerID, recErr, nextID, triggersTable, execCalls, response, notifs, project, faults >>

\* mutant: the first failure is kept as the error and returned after the loop
SeqFinish_ReturnAfterLoop(t) ==
    /\ pc[t] = "seqRun"
    /\ \E o \in OutcomesOf(project[t].Sequential[seqIdx[t]]), n \in Readings :
         LET r == executeCommand(project[t].Sequential[seqIdx[t]], o, startTime[t], n) IN
         /\ now' = n
         /\ results' = [results EXCEPT ![t] = Append(@, r)]
         /\ err' = [err EXCEPT ![t] = IF ~r.Success /\ @ = Nil THEN CommandFailed(r) ELSE @]
         /\ seqIdx' = [seqIdx EXCEPT ![t] = @ + 1]
         /\ pc' = [pc EXCEPT ![t] = "seq"]
         /\ recIdx' = recIdx
    /\ UNCHANGED << cfgVars, executionStartTime, startTime, usedEngine, spawnIdx, invoked, task, taskRes, taskLocal, asyncResults, mu,
                    triggerID, recErr, nextID, triggersTable, execCalls, response, notifs, project, faults >>

\* the command ends; append its result; return on failure
SeqFinish(t) ==
    /\ pc[t] = "seqRun"
    /\ \E o \in OutcomesOf(project[t].Sequential[seqIdx[t]]), n \in Readings :
         LET r == executeCommand(project[t].Sequential[seqIdx[t]], o, startTime[t], n) IN
         /\ now' = n
         /\ results' = [results EXCEPT ![t] = Append(@, r)]
         /\ IF ~r.Success
            THEN /\ err' = [err EXCEPT ![t] = CommandFailed(r)]
                 /\ recIdx' = [recIdx EXCEPT ![t] = 1]
                 /\ pc' = [pc EXCEPT ![t] = "record"]
                 /\ seqIdx' = seqIdx
            ELSE /\ seqIdx' = [seqIdx EXCEPT ![t] = @ + 1]
                 /\ pc' = [pc EXCEPT ![t] = "seq"]
                 /\ UNCHANGED << err, recIdx >>
    /\ UNCHANGED << cfgVars, executionStartTime, startTime, usedEngine, spawnIdx, invoked, task, taskRes, taskLocal, asyncResults, mu,
                    triggerID, recErr, nextID, triggersTable, execCalls, response, notifs, project, faults >>

\* if len(asyncCommands) > 0 { ... } else return results, nil
AsyncEnter(t) ==
    /\ pc[t] = "async"
    /\ IF Len(project[t].Async) > 0
       THEN /\ task' = [task EXCEPT ![t] = [i \in 1 .. Len(project[t].Async) |-> "none"]]
            /\ taskRes' = [taskRes EXCEPT ![t] = [i \in 1 .. Len(project[t].Async) |-> NoResult]]
            /\ taskLocal' = [taskLocal EXCEPT ![t] = [i \in 1 .. Len(project[t].Async) |-> <<>>]]
            /\ spawnIdx' = [spawnIdx EXCEPT ![t] = 1]
            /\ pc' = [pc EXCEPT ![t] = "spawn"]
            /\ recIdx' = recIdx
       ELSE /\ recIdx' = [recIdx EXCEPT ![t] = 1]
            /\ pc' = [pc EXCEPT ![t] = "record"]
            /\ UNCHANGED << task, taskRes, taskLocal, spawnIdx >>
    /\ UNCHANGED << cfgVars, timeVars, usedEngine, seqIdx, invoked, results, err, asyncResults, mu,
                    triggerID, recErr, nextID, triggersTable, execCalls, response, notifs, project, faults >>

\* launch loop: skip empty strings; wg.Add(1); go func(command)
Spawn(t) ==
    /\ pc[t] = "spawn"
    /\ LET j == NextNonEmpty(project[t].Async, spawnIdx[t]) IN
       IF j <= Len(project[t].Async)
       THEN /\ task' = [task EXCEPT ![t][j] = "ready"]
            /\ spawnIdx' = [spawnIdx EXCEPT ![t] = j + 1]
            /\ pc' = pc
       ELSE /\ spawnIdx' = [spawnIdx EXCEPT ![t] = j]
            /\ pc' = [pc EXCEPT ![t] = "wait"]
            /\ task' = task
    /\ UNCHANGED << cfgVars, timeVars, usedEngine, seqIdx, invoked, results, err, taskRes, taskLocal,
                    asyncResults, mu, dbVars, response, notifs, project, faults >>

\* the goroutine starts its command: startTime := time.Now() (kept in the
\* result the goroutine is building), then the bash process
TaskStart(t, i) ==
    /\ i \in DOMAIN task[t]
    /\ task[t][i] = "ready"
    /\ task' = [task EXCEPT ![t][i] = "running"]
    /\ \E n \in Readings :
         /\ now' = n
         /\ taskRes' = [taskRes EXCEPT ![t][i].StartTime = n]
    /\ invoked' = [invoked EXCEPT ![t] = @ \cup { << "async", i >> }]
    /\ UNCHANGED << cfgVars, executionStartTime, startTime, usedEngine, seqIdx, spawnIdx, results, err, taskLocal,
                    asyncResults, mu, dbVars, pc, response, notifs, project, faults >>

\* the command ends: result := executeCommand(command, env)
TaskFinish(t, i) ==
    /\ i \in DOMAIN task[t]
    /\ task[t][i] = "running"
    /\ \E o \in OutcomesOf(project[t].Async[i]), n \in Readings :
         /\ now' = n
         /\ taskRes' = [taskRes EXCEPT ![t][i] =
                executeCommand(project[t].Async[i], o, taskRes[t][i].StartTime, n)]
    /\ task' = [task EXCEPT ![t][i] = "waiting"]
    /\ UNCHANGED << cfgVars, executionStartTime, startTime, usedEngine, seqIdx, spawnIdx, invoked, results, err, taskLocal,
                    asyncResults, mu, dbVars, pc, response, notifs, project, faults >>

\* mutant: no mutex around the append (mu.Lock() missing)
TaskLock_NoMutex(t, i) ==
    /\ i \in DOMAIN task[t]
    /\ task[t][i] = "waiting"
    /\ mu' = [mu EXCEPT ![t] = i]
    /\ taskLocal' = [taskLocal EXCEPT ![t][i] = asyncResults[t]]
    /\ task' = [task EXCEPT ![t][i] = "locked"]
    /\ UNCHANGED << cfgVars, timeVars, usedEngine, seqIdx, spawnIdx, invoked, results, err, taskRes,
                    asyncResults, dbVars, pc, response, notifs, project, faults >>

\* mu.Lock(), and the read of asyncResults for the append
TaskLock(t, i) ==
    /\ i \in DOMAIN task[t]
    /\ task[t][i] = "waiting"
    /\ mu[t] = 0
    /\ mu' = [mu EXCEPT ![t] = i]
    /\ taskLocal' = [taskLocal EXCEPT ![t][i] = asyncResults[t]]
    /\ task' = [task EXCEPT ![t][i] = "locked"]
    /\ UNCHANGED << cfgVars, timeVars, usedEngine, seqIdx, spawnIdx, invoked, results, err, taskRes,
                    asyncResults, dbVars, pc, response, notifs, project, faults >>

\* asyncResults = append(asyncResults, result)
TaskAppend(t, i) ==
    /\ i \in DOMAIN task[t]
    /\ task[t][i] = "locked"
    /\ asyncResults' = [asyncResults EXCEPT ![t] = Append(taskLocal[t][i], taskRes[t][i])]
    /\ task' = [task EXCEPT ![t][i] = "appended"]
    /\ UNCHANGED << cfgVars, timeVars, usedEngine, seqIdx, spawnIdx, invoked, results, err, taskRes, taskLocal,
                    mu, dbVars, pc, response, notifs, project, faults >>

\* mu.Unlock(); deferred wg.Done()
TaskUnlock(t, i) ==
    /\ i \in DOMAIN task[t]
    /\ task[t][i] = "appended"
    /\ mu' = [mu EXCEPT ![t] = 0]
    /\ task' = [task EXCEPT ![t][i] = "done"]
    /\ UNCHANGED << cfgVars, timeVars, usedEngine, seqIdx, spawnIdx, invoked, results, err, taskRes, taskLocal,
                    asyncResults, dbVars, pc, response, notifs, project, faults >>

\* mutant: a failed async result makes the call return an error
WaitReturn_Escalate(t) ==
    /\ pc[t] = "wait"
    /\ \A i \in DOMAIN task[t] : task[t][i] \in {"none", "done"}
    /\ results' = [results EXCEPT ![t] = @ \o asyncResults[t]]
    /\ err' = [err EXCEPT ![t] =
          IF FirstFailed(asyncResults[t]) # 0
          THEN CommandFailed(asyncResults[t][FirstFailed(asyncResults[t])])
          ELSE @]
    /\ recIdx' = [recIdx EXCEPT ![t] = 1]
    /\ pc' = [pc EXCEPT ![t] = "record"]
    /\ UNCHANGED << cfgVars, timeVars, usedEngine, seqIdx, spawnIdx, invoked, task, taskRes, taskLocal,
                    asyncResults, mu, triggerID, recErr, nextID, triggersTable, execCalls,
                    response, notifs, project, faults >>

\* mutant: no wait for the goroutines (wg.Wait() missing)
WaitReturn_NoBarrier(t) ==
    /\ pc[t] = "wait"
    /\ results' = [results EXCEPT ![t] = @ \o asyncResults[t]]
    /\ recIdx' = [recIdx EXCEPT ![t] = 1]
    /\ pc' = [pc EXCEPT ![t] = "record"]
    /\ UNCHANGED << cfgVars, timeVars, usedEngine, seqIdx, spawnIdx, invoked, err, task, taskRes, taskLocal,
                    asyncResults, mu, triggerID, recErr, nextID, triggersTable, execCalls,
                    response, notifs, project, faults >>

\* mutant: the call returns as soon as one goroutine is through
WaitReturn_AnyDone(t) ==
    /\ pc[t] = "wait"
    /\ \/ \A i \in DOMAIN task[t] : task[t][i] = "none"
       \/ \E i \in DOMAIN task[t] : task[t][i] = "done"
    /\ results' = [results EXCEPT ![t] = @ \o asyncResults[t]]
    /\ recIdx' = [recIdx EXCEPT ![t] = 1]
    /\ pc' = [pc EXCEPT ![t] = "record"]
    /\ UNCHANGED << cfgVars, timeVars, usedEngine, seqIdx, spawnIdx, invoked, err, task, taskRes, taskLocal,
                    asyncResults, mu, triggerID, recErr, nextID, triggersTable, execCalls,
                    response, notifs, project, faults >>

\* mutant: the async results are returned in the order of the async command list
WaitReturn_InputOrder(t) ==
    /\ pc[t] = "wait"
    /\ \A i \in DOMAIN task[t] : task[t][i] \in {"none", "done"}
    /\ results' = [results EXCEPT ![t] = @ \o SelectSeq(taskRes[t], LAMBDA r : r # NoResult)]
    /\ recIdx' = [recIdx EXCEPT ![t] = 1]
    /\ pc' = [pc EXCEPT ![t] = "record"]
    /\ UNCHANGED << cfgVars, timeVars, usedEngine, seqIdx, spawnIdx, invoked, err, task, taskRes, taskLocal,
                    asyncResults, mu, triggerID, recErr, nextID, triggersTable, execCalls,
                    response, notifs, project, faults >>

\* mutant: the wait group also counts the async entries that were skipped as empty
WaitReturn_CountsSkipped(t) ==
    /\ pc[t] = "wait"
    /\ \A i \in DOMAIN task[t] : task[t][i] = "done"
    /\ results' = [results EXCEPT ![t] = @ \o asyncResults[t]]
    /\ recIdx' = [recIdx EXCEPT ![t] = 1]
    /\ pc' = [pc EXCEPT ![t] = "record"]
    /\ UNCHANGED << cfgVars, timeVars, usedEngine, seqIdx, spawnIdx, invoked, err, task, taskRes, taskLocal,
                    asyncResults, mu, triggerID, recErr, nextID, triggersTable, execCalls,
                    response, notifs, project, faults >>

\* wg.Wait() returns; results = append(results, asyncResults...); return results, nil
WaitReturn(t) ==
    /\ pc[t] = "wait"
    /\ \A i \in DOMAIN task[t] : task[t][i] \in {"none", "done"}
    /\ results' = [results EXCEPT ![t] = @ \o asyncResults[t]]
    /\ recIdx' = [recIdx EXCEPT ![t] = 1]
    /\ pc' = [pc EXCEPT ![t] = "record"]
    /\ UNCHANGED << cfgVars, timeVars, usedEngine, seqIdx, spawnIdx, invoked, err, task, taskRes, taskLocal,
                    asyncResults, mu, triggerID, recErr, nextID, triggersTable, execCalls,
                    response, notifs, project, faults >>

(* ------------------- recording and terminal card ---------------------- *)
\* mutant: every result is recorded as a success
StatusOf_AlwaysSuccess(r) == "success"

StatusOf(r) == IF r.Success THEN "success" ELSE "failed"

\* mutant: a failed record write becomes the run's error
RecordExecution_Fatal(t) ==
    /\ pc[t] = "record"
    /\ recIdx[t] <= Len(results[t])
    /\ \E ok \in BOOLEAN :
         /\ Outcome(ok)
         /\ LET r == results[t][recIdx[t]] IN
            execCalls' = [execCalls EXCEPT ![t] =
                Append(@, [triggerID |-> triggerID[t], scriptName |-> r.ScriptName,
                           status |-> StatusOf(r), output |-> r.Output, error |-> r.Error,
                           stored |-> ok])]
         /\ err' = [err EXCEPT ![t] = IF ok THEN @ ELSE << "failed to record execution" >>]
    /\ recIdx' = [recIdx EXCEPT ![t] = @ + 1]
    /\ UNCHANGED << cfgVars, timeVars, usedEngine, seqIdx, spawnIdx, invoked, results, task, taskRes, taskLocal,
                    asyncResults, mu, triggerID, recErr, nextID, triggersTable, pc, response, notifs, project >>

\* mutant: a failed record write ends the recording loop (break)
RecordExecution_Break(t) ==
    /\ pc[t] = "record"
    /\ recIdx[t] <= Len(results[t])
    /\ \E ok \in BOOLEAN :
         /\ Outcome(ok)
         /\ LET r == results[t][recIdx[t]] IN
            execCalls' = [execCalls EXCEPT ![t] =
                Append(@, [triggerID |-> triggerID[t], scriptName |-> r.ScriptName,
                           status |-> StatusOf(r), output |-> r.Output, error |-> r.Error,
                           stored |-> ok])]
         /\ recIdx' = [recIdx EXCEPT ![t] = IF ok THEN @ + 1 ELSE Len(results[t]) + 1]
    /\ UNCHANGED << cfgVars, timeVars, engineVars, triggerID, recErr, nextID, triggersTable, pc, response, notifs, project >>

\* mutant: the record is tagged with the id of the latest row of table triggers
RecordExecution_LatestTrigger(t) ==
    /\ pc[t] = "record"
    /\ recIdx[t] <= Len(results[t])
    /\ \E ok \in BOOLEAN :
         /\ Outcome(ok)
         /\ LET r == results[t][recIdx[t]] IN
            execCalls' = [execCalls EXCEPT ![t] =
                Append(@, [triggerID |-> nextID - 1, scriptName |-> r.ScriptName,
                           status |-> StatusOf(r), output |-> r.Output, error |-> r.Error,
                           stored |-> ok])]
    /\ recIdx' = [recIdx EXCEPT ![t] = @ + 1]
    /\ UNCHANGED << cfgVars, timeVars, engineVars, triggerID, recErr, nextID, triggersTable, pc, response, notifs, project >>

\* one pass of the "for _, result := range results" loop: database.RecordExecution
RecordExecution(t) ==
    /\ pc[t] = "record"
    /\ recIdx[t] <= Len(results[t])
    /\ \E ok \in BOOLEAN :
         /\ Outcome(ok)
         /\ LET r == results[t][recIdx[t]] IN
            execCalls' = [execCalls EXCEPT ![t] =
                Append(@, [triggerID |-> triggerID[t], scriptName |-> r.ScriptName,
                           status |-> StatusOf(r), output |-> r.Output, error |-> r.Error,
                           stored |-> ok])]
    /\ recIdx' = [recIdx EXCEPT ![t] = @ + 1]
    /\ UNCHANGED << cfgVars, timeVars, engineVars, triggerID, recErr, nextID, triggersTable, pc, response, notifs, project >>

\* mutant: the terminal card is sent before the recording loop has run
NotifyTerminal_Early(t) ==
    /\ pc[t] = "record"
    /\ \E ok \in BOOLEAN :
         /\ Outcome(ok)
         /\ notifs' = [notifs EXCEPT ![t] = Append(@,
                IF err[t] # Nil
                THEN Notification(StatusFailure, FullRepoName(event[t]),
                                  FailureMessage(commitMessage, results[t]), ok)
                ELSE Notification(StatusSuccess, FullRepoName(event[t]), commitMessage, ok))]
    /\ pc' = [pc EXCEPT ![t] = "done"]
    /\ UNCHANGED << cfgVars, timeVars, engineVars, dbVars, response, project >>

\* mutant: any failed result, async ones too, selects the failure card
NotifyTerminal_AnyFailure(t) ==
    /\ pc[t] = "record"
    /\ recIdx[t] > Len(results[t])
    /\ \E ok \in BOOLEAN :
         /\ Outcome(ok)
         /\ notifs' = [notifs EXCEPT ![t] = Append(@,
                IF err[t] # Nil \/ FirstFailed(results[t]) # 0
                THEN Notification(StatusFailure, FullRepoName(event[t]),
                                  FailureMessage(commitMessage, results[t]), ok)
                ELSE Notification(StatusSuccess, FullRepoName(event[t]), commitMessage, ok))]
    /\ pc' = [pc EXCEPT ![t] = "done"]
    /\ UNCHANGED << cfgVars, timeVars, engineVars, dbVars, response, project >>

\* mutant: the failure branch lacks its return and falls through to the success card
NotifyTerminal_NoReturn(t) ==
    /\ pc[t] = "record"
    /\ recIdx[t] > Len(results[t])
    /\ \E ok \in BOOLEAN :
         /\ Outcome(ok)
         /\ notifs' = [notifs EXCEPT ![t] =
                IF err[t] # Nil
                THEN @ \o << Notification(StatusFailure, FullRepoName(event[t]),
                                          FailureMessage(commitMessage, results[t]), ok),
                             Notification(StatusSuccess, FullRepoName(event[t]), commitMessage, ok) >>
                ELSE Append(@, Notification(StatusSuccess, FullRepoName(event[t]), commitMessage, ok))]
    /\ pc' = [pc EXCEPT ![t] = "done"]
    /\ UNCHANGED << cfgVars, timeVars, engineVars, dbVars, response, project >>

\* mutant: an undelivered terminal card is sent again
NotifyTerminal_Retry(t) ==
    /\ pc[t] = "record"
    /\ recIdx[t] > Len(results[t])
    /\ \E ok \in BOOLEAN :
         /\ Outcome(ok)
         /\ notifs' = [notifs EXCEPT ![t] = Append(@,
                IF err[t] # Nil
                THEN Notification(StatusFailure, FullRepoName(event[t]),
                                  FailureMessage(commitMessage, results[t]), ok)
                ELSE Notification(StatusSuccess, FullRepoName(event[t]), commitMessage, ok))]
         /\ pc' = [pc EXCEPT ![t] = IF ok THEN "done" ELSE "record"]
    /\ UNCHANGED << cfgVars, timeVars, engineVars, dbVars, response, project >>

\* after the loop: the failure card (err != nil) or the success card
NotifyTerminal(t) ==
    /\ pc[t] = "record"
    /\ recIdx[t] > Len(results[t])
    /\ \E ok \in BOOLEAN :
         /\ Outcome(ok)
         /\ notifs' = [notifs EXCEPT ![t] = Append(@,
                IF err[t] # Nil
                THEN Notification(StatusFailure, FullRepoName(event[t]),
                                  FailureMessage(commitMessage, results[t]), ok)
                ELSE Notification(StatusSuccess, FullRepoName(event[t]), commitMessage, ok))]
    /\ pc' = [pc EXCEPT ![t] = "done"]
    /\ UNCHANGED << cfgVars, timeVars, engineVars, dbVars, response, project >>

(* --------------------------- specification ---------------------------- *)
Next ==
    \E t \in Triggers :
        \/ Gate(t)
        \/ SendStarted(t)
        \/ RecordTrigger(t)
        \/ Respond(t)
        \/ Dispatch(t)
        \/ Lookup(t)
        \/ NotifySkipped(t)
        \/ StartExecution(t)
        \/ ScriptStart(t)
        \/ ScriptFinish(t)
        \/ SeqStart(t)
        \/ SeqFinish(t)
        \/ AsyncEnter(t)
        \/ Spawn(t)
        \/ \E i \in 1 .. (MaxAsync + 1) :
            \/ TaskStart(t, i)
            \/ TaskFinish(t, i)
            \/ TaskLock(t, i)
            \/ TaskAppend(t, i)
            \/ TaskUnlock(t, i)
        \/ WaitReturn(t)
        \/ RecordExecution(t)
        \/ NotifyTerminal(t)

Spec == Init /\ [][Next]_vars

SpecTimed == InitTimed /\ [][Next]_vars

\* everything that belongs to run t
RunAll(t) ==
    << pc[t], response[t], triggerID[t], recErr[t], notifs[t], project[t], usedEngine[t],
       seqIdx[t], spawnIdx[t], invoked[t], results[t], err[t], task[t], taskRes[t],
       taskLocal[t], asyncResults[t], mu[t], recIdx[t], execCalls[t],
       executionStartTime[t], startTime[t] >>

\* a step of run t: of its handler, its background goroutine or one of its command goroutines
RunStep(t) == Next /\ RunAll(t)' # RunAll(t)

\* the Go scheduler lets every run that can take a step take one eventually;
\* a command that never ends enables no step
Fairness == \A t \in Triggers : WF_vars(RunStep(t))

SpecTwo == InitTwo /\ [][Next]_vars

\* two pushes to different repositories, the second to one without commands
\* of its own (its run is skipped or goes through the scripts folder)
InitFair ==
    /\ InitTwo
    /\ event[2].repo # event[1].repo
    /\ UsesScripts(cfgCommands)
    /\ scriptsFolder = << ScriptName(1) >>
SpecTwoFair == InitFair /\ [][Next]_vars /\ Fairness

\* cfg.Commands with two entries of the same organization and repo: LoadConfig
\* checks that both fields are set, not that the pair is unique
DupConfigs ==
    { [n \in {"p1", "p2"} |-> IF n = "p1" THEN Entry("o1", "r1", << "a" >>, <<>>) ELSE b] :
        b \in { Entry("o1", "r1", <<>>, << "b" >>),
                Entry("o1", "r1", <<>>, <<>>) } }

\* two pushes, the first to the repository that is configured twice
InitDup ==
    /\ cfgCommands \in DupConfigs
    /\ clockStep = 0
    /\ scriptsFolder = IF UsesScripts(cfgCommands) THEN << ScriptName(1) >> ELSE Unreadable
    /\ event \in [Triggers -> Pushes]
    /\ event[1].repo = "r1"
    /\ \A t \in Triggers : t > 2 => event[t] = event[1]
    /\ InitRuns({1, 2})

SpecDup == InitDup /\ [][Next]_vars

(* --------------------- NotifyWithSecret by itself ---------------------- *)
\* the arguments a caller can pass: a status (also one that is none of the
\* three constants), a repository name and an author that may be empty (Notify
\* passes both empty), a branch that may be empty
CardStatuses == { StatusStarted, StatusSuccess, StatusFailure, "other" }
CardRepos == { "", "o1/r1" }
CardAuthors == { "", "dev" }
CardBranches == { "", stagingBranch }

\* one NotifyWithSecret call: the arguments, the card built from them, and
\* whether Feishu took it
NotifyCall ==
    /\ Len(notifs[1]) < MaxCards
    /\ \E status \in CardStatuses, repoName \in CardRepos, who \in CardAuthors,
          branch \in CardBranches, ok \in BOOLEAN :
         notifs' = [notifs EXCEPT ![1] =
             Append(@, [status |-> status, repo |-> repoName, author |-> who, branch |-> branch,
                        message |-> commitMessage, delivered |-> ok,
                        card |-> buildCard(status, repoName, who, commitID, commitMessage, branch, commitTime)])]
    /\ UNCHANGED << cfgVars, timeVars, engineVars, dbVars, pc, response, project, faults >>

InitCard ==
    /\ cfgCommands = [n \in {} |-> NoProject]
    /\ clockStep = 0
    /\ scriptsFolder = Unreadable
    /\ event \in [Triggers -> Pushes]
    /\ \A t \in Triggers : event[t].repo = "r1"
    /\ InitRuns({})

SpecCard == InitCard /\ [][NotifyCall]_vars

(* ------------------------------ claims -------------------------------- *)
StartedSent(t) == { i \in DOMAIN notifs[t] : notifs[t][i].status = StatusStarted }
TerminalSent(t) == { i \in DOMAIN notifs[t] : notifs[t][i].status \in {StatusSuccess, StatusFailure} }
TerminalOf(t) == notifs[t][CHOOSE i \in TerminalSent(t) : TRUE]

\* the engine call of run t has returned to processWebhookAsync
CommandsReturned(t) == usedEngine[t] = "commands" /\ pc[t] \in {"record", "done"}

\* positions of the sequential list whose command was started, and the place of
\* position i's result in the result list
SeqInvoked(t) == { i \in 1 .. Len(project[t].Sequential) : << "seq", i >> \in invoked[t] }
AsyncInvoked(t) == { i \in 1 .. Len(project[t].Async) : << "async", i >> \in invoked[t] }
Rank(S, i) == Cardinality({ j \in S : j <= i })
NonEmpty(list) == { j \in DOMAIN list : list[j] # "" }
Count(c, list) == Cardinality({ j \in DOMAIN list : list[j] = c })
Named(c, res) == Cardinality({ j \in DOMAIN res : res[j].ScriptName = c })

\* sequential position i was run and its result is a failure
SeqFailedAt(t, i) ==
    /\ i \in SeqInvoked(t)
    /\ Rank(SeqInvoked(t), i) <= Len(results[t])
    /\ ~results[t][Rank(SeqInvoked(t), i)].Success

\* C1 as stated: per accepted trigger at most one started card, at most one
\* terminal card, and a run that is over (also one aborted because the trigger
\* record could not be created) has sent exactly one terminal card.
C1_Original ==
    \A t \in Triggers :
        /\ Cardinality(StartedSent(t)) <= 1
        /\ Cardinality(TerminalSent(t)) <= 1
        /\ (pc[t] \in {"done", "aborted"} => Cardinality(TerminalSent(t)) = 1)

\* C1 amended: at most one started card and at most one terminal card per run; a
\* run whose trigger record was created ends with exactly one terminal card,
\* whatever commands and record persistence did; a run whose trigger-record
\* creation failed has sent its started card and never sends a terminal card.
C1_TerminalOnce ==
    \A t \in Triggers :
        /\ Cardinality(StartedSent(t)) <= 1
        /\ Cardinality(TerminalSent(t)) <= 1
        /\ (pc[t] = "done" => Cardinality(TerminalSent(t)) = 1)
        /\ (recErr[t] = "error" =>
                Cardinality(TerminalSent(t)) = 0 /\ Cardinality(StartedSent(t)) = 1)

\* a finished run with a failed command and a failed record write, one terminal card
C1_Witness ==
    \E t \in Triggers :
        /\ pc[t] = "done"
        /\ err[t] # Nil
        /\ \E i \in DOMAIN execCalls[t] : ~execCalls[t][i].stored
        /\ Cardinality(TerminalSent(t)) = 1
        /\ Cardinality(StartedSent(t)) = 1

\* C2 as stated: if the command at position i of the sequential list failed,
\* no later sequential command and no async command is ever started and the
\* result list has exactly i entries.
C2_Original ==
    \A t \in Triggers : usedEngine[t] = "commands" =>
        \A i \in 1 .. Len(project[t].Sequential) : SeqFailedAt(t, i) =>
            /\ \A j \in (i + 1) .. Len(project[t].Sequential) : j \notin SeqInvoked(t)
            /\ AsyncInvoked(t) = {}
            /\ Len(results[t]) = i

\* C2 amended: if the command at position i of the sequential list failed, no
\* later sequential command and no async command is ever started, and the result
\* list has one entry per non-empty command among positions 1..i (exactly i when
\* none of them is empty), the last being the failed one.
C2_StopOnFirstFailure ==
    \A t \in Triggers : usedEngine[t] = "commands" =>
        \A i \in 1 .. Len(project[t].Sequential) : SeqFailedAt(t, i) =>
            /\ \A j \in (i + 1) .. Len(project[t].Sequential) : j \notin SeqInvoked(t)
            /\ AsyncInvoked(t) = {}
            /\ task[t] = <<>>
            /\ Len(results[t]) = Cardinality({ j \in NonEmpty(project[t].Sequential) : j <= i })
            /\ results[t][Len(results[t])].ScriptName = project[t].Sequential[i]
            /\ ((\A j \in 1 .. i : project[t].Sequential[j] # "") => Len(results[t]) = i)

\* the first of two commands failed, with a command and an async command behind it
C2_Witness ==
    \E t \in Triggers :
        /\ pc[t] = "done"
        /\ usedEngine[t] = "commands"
        /\ SeqFailedAt(t, 1)
        /\ Len(project[t].Sequential) = 2
        /\ project[t].Sequential[2] # ""
        /\ NonEmpty(project[t].Async) # {}
        /\ Len(results[t]) = 1

\* C3 as stated: with an empty sequential list and k async commands the call
\* returns exactly k results, named as the k inputs.
C3_Original ==
    \A t \in Triggers :
        (CommandsReturned(t) /\ Len(project[t].Sequential) = 0) =>
            /\ Len(results[t]) = Len(project[t].Async)
            /\ \A c \in Cmds : Named(c, results[t]) = Count(c, project[t].Async)

\* C3 amended: with an empty sequential list the call returns, under every
\* interleaving, exactly one result per non-empty async command, named as these
\* commands (k results when none of the k is the empty string).
C3_AsyncResultSet ==
    \A t \in Triggers :
        (CommandsReturned(t) /\ Len(project[t].Sequential) = 0) =>
            /\ Len(results[t]) = Cardinality(NonEmpty(project[t].Async))
            /\ \A c \in Cmds \ {""} : Named(c, results[t]) = Count(c, project[t].Async)
            /\ Named("", results[t]) = 0
            /\ (NonEmpty(project[t].Async) = DOMAIN project[t].Async =>
                    Len(results[t]) = Len(project[t].Async))

\* two async commands whose results came back in the other order
C3_Witness ==
    \E t \in Triggers :
        /\ CommandsReturned(t)
        /\ Len(project[t].Sequential) = 0
        /\ project[t].Async = << "a", "b" >>
        /\ Len(results[t]) = 2
        /\ results[t][1].ScriptName = "b"
        /\ results[t][2].ScriptName = "a"

\* some RecordTrigger row belongs to run t
HasTriggerRow(t) == \E k \in DOMAIN triggersTable : triggersTable[k].trigger = t

\* C4: within one trigger the "started" card is sent before the RecordTrigger
\* call, before any RecordExecution call and before any command starts: whenever
\* one of these has happened, the first NotifyWithSecret call of the run was the
\* started card.
C4_StartedFirst ==
    \A t \in Triggers :
        (\/ recErr[t] # "unset"
         \/ triggerID[t] # NoID
         \/ HasTriggerRow(t)
         \/ execCalls[t] # <<>>
         \/ invoked[t] # {}
         \/ TerminalSent(t) # {}) =>
            /\ notifs[t] # <<>>
            /\ notifs[t][1].status = StatusStarted

\* a run that has created its trigger record, run commands and written records
C4_Witness ==
    \E t \in Triggers :
        /\ HasTriggerRow(t)
        /\ invoked[t] # {}
        /\ execCalls[t] # <<>>
        /\ notifs[t][1].status = StatusStarted

\* C5: once the terminal card of a run is sent, RecordExecution has been called
\* once for every result of the run, in result order, and no call is made
\* afterwards (the calls never outnumber the results).
C5_TerminalAfterRecords ==
    \A t \in Triggers :
        TerminalSent(t) # {} =>
            /\ Len(execCalls[t]) = Len(results[t])
            /\ \A i \in DOMAIN results[t] :
                   /\ execCalls[t][i].scriptName = results[t][i].ScriptName
                   /\ execCalls[t][i].triggerID = triggerID[t]

\* a terminal card sent after two results were recorded
C5_Witness ==
    \E t \in Triggers :
        /\ TerminalSent(t) # {}
        /\ Len(results[t]) >= 2
        /\ Len(execCalls[t]) = Len(results[t])

\* the results of the sequential phase, and those of the async phase
SeqPart(t) == SubSeq(results[t], 1, Cardinality(SeqInvoked(t)))
AsyncPart(t) == SubSeq(results[t], Cardinality(SeqInvoked(t)) + 1, Len(results[t]))
AnyFailed(res) == \E i \in DOMAIN res : ~res[i].Success

\* C6: ExecuteCommands returns a non-nil error exactly when a sequential command
\* failed; a failed async command leaves the error nil and shows only as a
\* result with Success = FALSE.
C6_ErrorIffSequentialFailed ==
    \A t \in Triggers :
        CommandsReturned(t) =>
            /\ (err[t] # Nil <=> AnyFailed(SeqPart(t)))
            /\ (AnyFailed(AsyncPart(t)) => err[t] = Nil)
            /\ (err[t] # Nil => err[t] = CommandFailed(results[t][Len(results[t])]))

\* a nil-error return that holds a failed async result
C6_Witness ==
    \E t \in Triggers :
        /\ CommandsReturned(t)
        /\ err[t] = Nil
        /\ AnyFailed(AsyncPart(t))
        /\ Len(SeqPart(t)) >= 1

\* C7: a finished run whose sequential commands all succeeded and with a failed
\* async command has sent the success card with the commit message as it was,
\* and has handed the failed async result to RecordExecution with status "failed".
C7_AsyncFailureNotEscalated ==
    \A t \in Triggers :
        (/\ pc[t] = "done"
         /\ usedEngine[t] = "commands"
         /\ ~AnyFailed(SeqPart(t))
         /\ AnyFailed(AsyncPart(t))) =>
            /\ Cardinality(TerminalSent(t)) = 1
            /\ TerminalOf(t).status = StatusSuccess
            /\ TerminalOf(t).message = commitMessage
            /\ \A i \in DOMAIN results[t] : ~results[t][i].Success =>
                   /\ i \in DOMAIN execCalls[t]
                   /\ execCalls[t][i].scriptName = results[t][i].ScriptName
                   /\ execCalls[t][i].status = "failed"

\* a finished run: a sequential command succeeded, an async command failed
C7_Witness ==
    \E t \in Triggers :
        /\ pc[t] = "done"
        /\ usedEngine[t] = "commands"
        /\ Len(SeqPart(t)) >= 1
        /\ ~AnyFailed(SeqPart(t))
        /\ AnyFailed(AsyncPart(t))
        /\ TerminalOf(t).status = StatusSuccess

\* a sequentially run unit of the run failed: a sequential command, or a script
\* of the scripts folder
SequentialFailed(t) ==
    \/ usedEngine[t] = "commands" /\ AnyFailed(SeqPart(t))
    \/ usedEngine[t] = "scripts" /\ AnyFailed(results[t])

\* C8 as stated: the terminal card is the failure card (with a changed message)
\* exactly when a sequential command of the run failed.
C8_Original ==
    \A t \in Triggers :
        (pc[t] = "done" /\ TerminalSent(t) # {}) =>
            /\ (TerminalOf(t).status = StatusFailure <=> SequentialFailed(t))
            /\ (TerminalOf(t).status = StatusFailure => TerminalOf(t).message # commitMessage)

\* C8 amended: the terminal card is the failure card (with a changed message)
\* exactly when the engine call returned an error: a sequential command failed or,
\* in the scripts-folder fallback, a script failed or the folder could not be
\* read.  Failed async commands, failed record writes and failed deliveries never
\* make it the failure card, and the success card of an executed run carries the
\* commit message unchanged.
C8_FailureIffEngineError ==
    \A t \in Triggers :
        (pc[t] = "done" /\ TerminalSent(t) # {}) =>
            /\ (TerminalOf(t).status = StatusFailure <=>
                    (SequentialFailed(t) \/ (usedEngine[t] = "scripts" /\ scriptsFolder = Unreadable)))
            /\ (TerminalOf(t).status = StatusFailure <=> err[t] # Nil)
            /\ (TerminalOf(t).status = StatusFailure =>
                    /\ TerminalOf(t).message = FailureMessage(commitMessage, results[t])
                    /\ TerminalOf(t).message # commitMessage)
            /\ ((TerminalOf(t).status = StatusSuccess /\ usedEngine[t] # "none") =>
                    TerminalOf(t).message = commitMessage)

\* a finished run with a failed async command and a failed record write that
\* still sent the success card
C8_Witness ==
    \E t \in Triggers :
        /\ pc[t] = "done"
        /\ AnyFailed(AsyncPart(t))
        /\ \E i \in DOMAIN execCalls[t] : ~execCalls[t][i].stored
        /\ TerminalOf(t).status = StatusSuccess

\* C9: when no entry of cfg.Commands matches the trigger's organization and
\* repository, the run never invokes the engine, starts no command, writes no
\* execution record, and ends with exactly one success card whose message is the
\* commit message plus the skipped marker.
C9_SkipPath ==
    \A t \in Triggers :
        (Matches(t) = {}) =>
            /\ usedEngine[t] = "none"
            /\ invoked[t] = {}
            /\ results[t] = <<>>
            /\ execCalls[t] = <<>>
            /\ pc[t] \in {"absent", "arrive", "rejected", "ignored", "accepted", "notified",
                          "aborted", "recorded", "acked", "lookup", "skip", "done"}
            /\ (pc[t] = "done" =>
                    /\ Cardinality(TerminalSent(t)) = 1
                    /\ TerminalOf(t).status = StatusSuccess
                    /\ TerminalOf(t).message = SkippedMessage(commitMessage)
                    /\ TerminalOf(t).message # commitMessage)

\* a finished run of a repository that the (non-empty) configuration does not name
C9_Witness ==
    \E t \in Triggers :
        /\ pc[t] = "done"
        /\ Matches(t) = {}
        /\ DOMAIN cfgCommands # {}
        /\ Len(notifs[t]) = 2

\* C10: if RecordTrigger fails the handler answers 500 and the run ends there:
\* nothing is dispatched, no command starts, no execution record is written and
\* no terminal card is sent; and an accepted trigger ends undispatched only for
\* this reason (a failed started card does not stop it).
C10_TriggerRecordFailureAborts ==
    \A t \in Triggers :
        /\ recErr[t] = "error" =>
               /\ pc[t] = "aborted"
               /\ response[t] = [code |-> StatusInternalServerError, body |-> "failed to record trigger"]
               /\ triggerID[t] = NoID
               /\ ~HasTriggerRow(t)
               /\ usedEngine[t] = "none"
               /\ invoked[t] = {}
               /\ execCalls[t] = <<>>
               /\ TerminalSent(t) = {}
        /\ pc[t] = "aborted" => recErr[t] = "error"
        /\ (recErr[t] = "nil" /\ ~notifs[t][1].delivered) => pc[t] # "aborted"

\* the handler has answered 500 after a failed RecordTrigger
C10_Witness ==
    \E t \in Triggers :
        /\ recErr[t] = "error"
        /\ pc[t] = "aborted"
        /\ response[t].code = StatusInternalServerError

\* the handler of run t has written its response and returned
Answered(t) == response[t] # NoResponse
Acknowledged(t) == response[t] = [code |-> StatusOK, body |-> "webhook received"]
AfterAck == {"acked", "lookup", "skip", "exec", "scripts", "scriptRun", "seq", "seqRun",
             "async", "spawn", "wait", "record", "done"}

\* C11 as stated: every accepted trigger (a push to the staging branch with a
\* head commit) whose handler has answered was answered 200 "webhook received",
\* whatever commands, persistence calls and notification deliveries did.
C11_Original ==
    \A t \in Triggers :
        (Answered(t) /\ pc[t] \notin {"rejected", "ignored"}) => Acknowledged(t)

\* C11 amended: an accepted trigger whose trigger record was created is answered
\* 200 "webhook received", and that answer stands whatever the started card's
\* delivery, the commands, the RecordExecution calls and the terminal card's
\* delivery do afterwards; the one outcome that changes the answer is a failed
\* RecordTrigger, which is answered 500.
C11_AckRegardless ==
    \A t \in Triggers :
        /\ pc[t] \in AfterAck => Acknowledged(t)
        /\ (Answered(t) /\ pc[t] \notin {"rejected", "ignored"}) =>
                (Acknowledged(t) <=> recErr[t] = "nil")
        /\ (Answered(t) /\ recErr[t] = "error") =>
                response[t].code = StatusInternalServerError

\* an acknowledged run that went on to a failed command and an undelivered card
C11_Witness ==
    \E t \in Triggers :
        /\ pc[t] = "done"
        /\ Acknowledged(t)
        /\ err[t] # Nil
        /\ \E i \in DOMAIN notifs[t] : ~notifs[t][i].delivered

\* C12: when a sequentially run command failed, the terminal card's message is
\* the commit message, " (FAILED)", and a reason block with the name, the error
\* text and the (possibly cut) output of the first failed result of the list,
\* which is the only failed one; nothing of another result is in the message.
C12_FailureReason ==
    \A t \in Triggers :
        (pc[t] = "done" /\ SequentialFailed(t)) =>
            LET m == TerminalOf(t).message
                f == CHOOSE i \in DOMAIN results[t] : ~results[t][i].Success
                r == results[t][f]
            IN  /\ TerminalOf(t).status = StatusFailure
                /\ \A i \in DOMAIN results[t] : ~results[t][i].Success => i = f
                /\ Len(m) \in {11, 12}
                /\ SubSeq(m, 1, 2) = << Part("msg"), Part(" (FAILED)") >>
                /\ SubSeq(m, 3, 4) = << Part("\n\nFailure Reason:\n"), Part("Script: ") >>
                /\ m[5] = Part(r.ScriptName)
                /\ SubSeq(m, 6, 7) = << Part("\n"), Part("Error: ") >>
                /\ m[8] = Part(r.Error)
                /\ SubSeq(m, 9, 10) = << Part("\n"), Part("Output:\n") >>
                /\ m[11].txt = r.Output
                /\ (Len(m) = 12 => m[12] = Part("...(truncated)"))

\* a failure card whose reason names the second of two results
C12_Witness ==
    \E t \in Triggers :
        /\ pc[t] = "done"
        /\ SequentialFailed(t)
        /\ Len(results[t]) = 2
        /\ results[t][1].Success
        /\ TerminalOf(t).message[8] = Part("exit status 1")

\* C13: the output of the failed result named in the failure card, of length L:
\* if L > 2000 the message ends with exactly its first 2000 bytes followed by
\* "...(truncated)"; if L <= 2000 the message ends with the whole output and no
\* marker (3000 is cut to 2000 plus marker; 1500, and 2000 itself, are unchanged).
C13_Truncation ==
    \A t \in Triggers :
        (pc[t] = "done" /\ TerminalOf(t).status = StatusFailure /\ AnyFailed(results[t])) =>
            LET m == TerminalOf(t).message
                r == results[t][CHOOSE i \in DOMAIN results[t] : ~results[t][i].Success]
                L == TextLen(r.Output)
            IN  /\ L > 2000 =>
                    /\ Len(m) = 12
                    /\ m[11] = [txt |-> r.Output, upto |-> 2000]
                    /\ m[12] = [txt |-> "...(truncated)", upto |-> 14]
                /\ L <= 2000 =>
                    /\ Len(m) = 11
                    /\ m[11] = [txt |-> r.Output, upto |-> L]
                /\ (L = 3000 => m[11].upto = 2000)
                /\ (L = 1500 => m[11].upto = 1500 /\ Len(m) = 11)

\* a failure card that carries the first 2000 bytes of a 3000-byte output
C13_Witness ==
    \E t \in Triggers :
        /\ pc[t] = "done"
        /\ TerminalOf(t).status = StatusFailure
        /\ Len(TerminalOf(t).message) = 12
        /\ TextLen(TerminalOf(t).message[11].txt) = 3000
        /\ TerminalOf(t).message[11].upto = 2000

\* the goroutines launched by the async phase of run t, those inside the
\* critical section, and those whose append is made
Launched(t) == { i \in DOMAIN task[t] : task[t][i] # "none" }
InCritical(t) == { i \in DOMAIN task[t] : task[t][i] \in {"locked", "appended"} }
Appended(t) == { i \in DOMAIN task[t] : task[t][i] \in {"appended", "done"} }
\* the place in asyncResults at which goroutine i appends: after what it read
AppendPos(t, i) == Len(taskLocal[t][i]) + 1

\* C14: once ExecuteCommands has returned, every goroutine it launched (one per
\* non-empty async command) has run its command to the end, appended its result
\* and finished; none is still ready, running or waiting for the lock.
C14_AsyncBarrier ==
    \A t \in Triggers :
        CommandsReturned(t) =>
            /\ \A i \in DOMAIN task[t] : task[t][i] \in {"none", "done"}
            /\ \A i \in DOMAIN task[t] : project[t].Async[i] # "" => task[t][i] = "done"
            /\ \A i \in Launched(t) :
                   /\ << "async", i >> \in invoked[t]
                   /\ taskRes[t][i].ScriptName = project[t].Async[i]
                   /\ \E k \in DOMAIN results[t] : results[t][k] = taskRes[t][i]
            /\ mu[t] = 0

\* a return after two goroutines, with a sequential result ahead of theirs
C14_Witness ==
    \E t \in Triggers :
        /\ CommandsReturned(t)
        /\ pc[t] = "record"
        /\ Cardinality(Launched(t)) = 2
        /\ \A i \in Launched(t) : task[t][i] = "done"
        /\ Len(results[t]) = 3

\* C15: at most one goroutine is between mu.Lock() and mu.Unlock(), and it is
\* the holder of the mutex; asyncResults holds the result of every goroutine
\* that has appended, once each, at the place where it appended (nothing lost,
\* doubled or overwritten).
C15_AppendExclusive ==
    \A t \in Triggers :
        /\ Cardinality(InCritical(t)) <= 1
        /\ \A i \in InCritical(t) : mu[t] = i
        /\ (InCritical(t) = {} => mu[t] = 0)
        /\ Len(asyncResults[t]) = Cardinality(Appended(t))
        /\ \A i \in Appended(t) :
               /\ AppendPos(t, i) \in DOMAIN asyncResults[t]
               /\ asyncResults[t][AppendPos(t, i)] = taskRes[t][i]
        /\ \A i, j \in Appended(t) : i # j => AppendPos(t, i) # AppendPos(t, j)

\* a goroutine holds the mutex while another, its command over, waits for it
C15_Witness ==
    \E t \in Triggers :
        \E i, j \in DOMAIN task[t] :
            /\ i # j
            /\ task[t][i] = "locked"
            /\ task[t][j] = "waiting"
            /\ mu[t] = i

\* the positions of the sequential list run so far, in order
SeqOrder(t) == SelectSeq([i \in DOMAIN project[t].Sequential |-> i], LAMBDA i : i \in SeqInvoked(t))

\* C16: the list returned by ExecuteCommands is the sequential results in the
\* order the commands were run, then the async results in the order their
\* goroutines appended them (which may differ from the order of the async
\* command list); every async result comes after every sequential result.
C16_ResultOrder ==
    \A t \in Triggers :
        CommandsReturned(t) =>
            LET n == Cardinality(SeqInvoked(t)) IN
            /\ Len(results[t]) = n + Cardinality(Launched(t))
            /\ \A k \in 1 .. n : results[t][k].ScriptName = project[t].Sequential[SeqOrder(t)[k]]
            /\ \A i \in Launched(t) : results[t][n + AppendPos(t, i)] = taskRes[t][i]
            /\ \A i, j \in Launched(t) : i # j => AppendPos(t, i) # AppendPos(t, j)
            /\ SubSeq(results[t], n + 1, Len(results[t])) = asyncResults[t]

\* a sequential result, then the async results with the second command's first
C16_Witness ==
    \E t \in Triggers :
        /\ CommandsReturned(t)
        /\ project[t].Sequential = << "a" >>
        /\ project[t].Async = << "a", "b" >>
        /\ Len(results[t]) = 3
        /\ results[t][2].ScriptName = "b"
        /\ results[t][3].ScriptName = "a"
        /\ AppendPos(t, 2) = 1

\* the row of table triggers that run t created has run t's id
OwnTriggerID(t) ==
    /\ triggerID[t] # NoID
    /\ \E k \in DOMAIN triggersTable :
           triggersTable[k] = [id |-> triggerID[t], trigger |-> t]

\* C17: on the success path and on the failure path alike, the RecordExecution
\* calls of a run are one per result, in result order, each with the run's own
\* trigger id, the result's name, output and error, and status "success" exactly
\* when the result's Success is true, "failed" otherwise; a finished run has
\* made the call for every result.
C17_OneRecordPerResult ==
    \A t \in Triggers :
        /\ Len(execCalls[t]) <= Len(results[t])
        /\ \A i \in DOMAIN execCalls[t] :
               /\ OwnTriggerID(t)
               /\ execCalls[t][i].triggerID = triggerID[t]
               /\ execCalls[t][i].scriptName = results[t][i].ScriptName
               /\ execCalls[t][i].output = results[t][i].Output
               /\ execCalls[t][i].error = results[t][i].Error
               /\ execCalls[t][i].status \in {"success", "failed"}
               /\ (execCalls[t][i].status = "success" <=> results[t][i].Success)
        /\ (pc[t] = "done" => Len(execCalls[t]) = Len(results[t]))

\* a finished failed run: a good result and a failed one, both recorded
C17_Witness ==
    \E t \in Triggers :
        /\ pc[t] = "done"
        /\ err[t] # Nil
        /\ Len(execCalls[t]) = 2
        /\ execCalls[t][1].status = "success"
        /\ execCalls[t][2].status = "failed"

\* the terminal card the run sends when no write fails: decided by the engine's
\* error and results alone
ExpectedStatus(t) == IF err[t] # Nil THEN StatusFailure ELSE StatusSuccess
ExpectedMessage(t) ==
    IF err[t] # Nil THEN FailureMessage(commitMessage, results[t]) ELSE commitMessage

\* C18: a RecordExecution call that fails does not end the run: the loop goes
\* on to the next result (one call per result is still made) and the terminal
\* card is sent with the status and message that engine error and results
\* determine, as without the failed write.
C18_RecordFailureNotFatal ==
    \A t \in Triggers :
        (\E i \in DOMAIN execCalls[t] : ~execCalls[t][i].stored) =>
            /\ pc[t] \in {"record", "done"}
            /\ (pc[t] = "record" => recIdx[t] = Len(execCalls[t]) + 1)
            /\ (pc[t] = "done" =>
                    /\ Len(execCalls[t]) = Len(results[t])
                    /\ Cardinality(TerminalSent(t)) = 1
                    /\ TerminalOf(t).status = ExpectedStatus(t)
                    /\ TerminalOf(t).message = ExpectedMessage(t))

\* the first of two record writes failed, the second was made, the card was sent
C18_Witness ==
    \E t \in Triggers :
        /\ pc[t] = "done"
        /\ Len(results[t]) >= 2
        /\ ~execCalls[t][1].stored
        /\ Len(execCalls[t]) = Len(results[t])
        /\ TerminalSent(t) # {}

\* C19: a "started" card that could not be delivered does not hold the run up:
\* the handler goes on to RecordTrigger (which can be called), the run is
\* aborted only if RecordTrigger itself fails, it is acknowledged, and it ends
\* with the terminal card that engine error and results determine.
C19_StartedFailureNotBlocking ==
    \A t \in Triggers :
        (notifs[t] # <<>> /\ ~notifs[t][1].delivered) =>
            /\ notifs[t][1].status = StatusStarted
            /\ pc[t] \in {"notified", "aborted", "recorded"} \cup AfterAck
            /\ (pc[t] = "notified" => ENABLED RecordTrigger(t))
            /\ (pc[t] = "aborted" <=> recErr[t] = "error")
            /\ (pc[t] \in AfterAck => Acknowledged(t) /\ OwnTriggerID(t))
            /\ (pc[t] = "done" =>
                    /\ Cardinality(TerminalSent(t)) = 1
                    /\ (usedEngine[t] # "none" =>
                            /\ TerminalOf(t).status = ExpectedStatus(t)
                            /\ TerminalOf(t).message = ExpectedMessage(t)))

\* a run whose started card was lost and that ran a command to its failure card
C19_Witness ==
    \E t \in Triggers :
        /\ pc[t] = "done"
        /\ ~notifs[t][1].delivered
        /\ invoked[t] # {}
        /\ TerminalOf(t).status = StatusFailure
        /\ TerminalOf(t).delivered

\* what a step of run t can change
RunState(t) ==
    << pc[t], response[t], notifs[t], invoked[t], results[t], execCalls[t], triggerID[t], task[t] >>

\* C20: once the terminal card of a run has been attempted, delivered or not,
\* the run is done and stays done: no step of the run is possible any more, and
\* no step sends another card, starts a command, changes the results or makes a
\* RecordExecution or RecordTrigger call for it.
C20_DoneIsTerminal ==
    /\ [](\A t \in Triggers : TerminalSent(t) # {} => ~ENABLED << Next >>_(RunState(t)))
    /\ [][\A t \in Triggers :
          TerminalSent(t) # {} =>
              /\ pc[t] = "done"
              /\ pc'[t] = "done"
              /\ notifs'[t] = notifs[t]
              /\ invoked'[t] = invoked[t]
              /\ results'[t] = results[t]
              /\ execCalls'[t] = execCalls[t]
              /\ triggerID'[t] = triggerID[t]
              /\ triggersTable' = triggersTable]_vars

\* a finished run whose terminal card was not delivered
C20_Witness ==
    \E t \in Triggers :
        /\ pc[t] = "done"
        /\ Cardinality(TerminalSent(t)) = 1
        /\ ~TerminalOf(t).delivered
        /\ Len(notifs[t]) = 2
        /\ execCalls[t] # <<>>

\* every result the engine has produced so far in run t
Produced(t) ==
    { results[t][i] : i \in DOMAIN results[t] } \cup
    { asyncResults[t][i] : i \in DOMAIN asyncResults[t] } \cup
    { taskRes[t][i] : i \in { j \in DOMAIN task[t] : task[t][j] \in {"waiting", "locked", "appended", "done"} } }

\* C22: every result the engine produces has EndTime >= StartTime and a
\* Duration equal to EndTime - StartTime.
C22_DurationIsEndMinusStart ==
    \A t \in Triggers : \A r \in Produced(t) :
        /\ r.EndTime >= r.StartTime
        /\ r.Duration = r.EndTime - r.StartTime
        /\ r.Duration >= 0
        /\ r.StartTime + r.Duration = r.EndTime
        /\ r.StartTime # ZeroTime

\* a command that took one tick of the clock
C22_Witness ==
    \E t \in Triggers : \E r \in Produced(t) :
        r.StartTime = 1 /\ r.EndTime = 2 /\ r.Duration = 1

\* the engine call of run t, whichever engine it was, has returned
EngineReturned(t) == usedEngine[t] # "none" /\ pc[t] \in {"record", "done"}

\* C28: once the engine has returned, the completion time is the latest EndTime
\* over the results (the clock's reading when there is none), the total
\* duration is the completion time less executionStartTime, read before the
\* engine was called, and the total duration is never negative.
C28_TotalDuration ==
    \A t \in Triggers :
        EngineReturned(t) =>
            LET e == executionEndTime(results[t], now)
                d == totalDuration(results[t], now, executionStartTime[t])
            IN  /\ results[t] # <<>> =>
                    /\ \A i \in DOMAIN results[t] : results[t][i].EndTime <= e
                    /\ \E i \in DOMAIN results[t] : results[t][i].EndTime = e
                /\ results[t] = <<>> => e = now
                /\ d = e - executionStartTime[t]
                /\ d >= 0
                /\ executionStartTime[t] # ZeroTime
                /\ \A i \in DOMAIN results[t] : executionStartTime[t] <= results[t][i].StartTime

\* two async results, the one that ended later appended first
C28_Witness ==
    \E t \in Triggers :
        /\ EngineReturned(t)
        /\ Len(results[t]) = 2
        /\ results[t][1].EndTime > results[t][2].EndTime
        /\ totalDuration(results[t], now, executionStartTime[t]) = 1

SeqRunning(t) ==
    { j \in SeqInvoked(t) :
        Rank(SeqInvoked(t), j) > Len(results[t]) }

\* C24: the sequential commands of a run are started in list order and one at a
\* time: when position j has been started, every non-empty position before it
\* was started, has its result and succeeded, and ended before j began; at most
\* one sequential command is running at any moment.
C24_SequentialInOrder ==
    \A t \in Triggers : usedEngine[t] = "commands" =>
        /\ \A j \in SeqInvoked(t) :
               /\ project[t].Sequential[j] # ""
               /\ \A k \in 1 .. (j - 1) : project[t].Sequential[k] # "" =>
                      /\ k \in SeqInvoked(t)
                      /\ Rank(SeqInvoked(t), k) <= Len(results[t])
                      /\ results[t][Rank(SeqInvoked(t), k)].Success
                      /\ results[t][Rank(SeqInvoked(t), k)].ScriptName = project[t].Sequential[k]
        /\ (pc[t] \in {"seq", "seqRun"} =>
                /\ Cardinality(SeqRunning(t)) <= 1
                /\ (pc[t] = "seqRun" <=> SeqRunning(t) = {seqIdx[t]})
                /\ (pc[t] = "seq" <=> SeqRunning(t) = {}))
        /\ \A k \in 1 .. (Cardinality(SeqInvoked(t)) - 1) :
               (k + 1 <= Len(results[t])) => results[t][k].EndTime <= results[t][k + 1].StartTime

\* the second of two sequential commands is running, the first has succeeded
C24_Witness ==
    \E t \in Triggers :
        /\ pc[t] = "seqRun"
        /\ seqIdx[t] = 2
        /\ SeqInvoked(t) = {1, 2}
        /\ Len(results[t]) = 1
        /\ results[t][1].Success

\* the async phase of run t has begun to launch or run goroutines
AsyncBegun(t) == Launched(t) # {} \/ AsyncInvoked(t) # {} \/ pc[t] \in {"spawn", "wait"}

\* C25: no goroutine of the async phase is launched, and no async command
\* started, before every non-empty sequential command of the run has its result
\* and that result is a success (vacuous for an empty sequential list).
C25_AsyncAfterSequential ==
    \A t \in Triggers :
        AsyncBegun(t) =>
            /\ usedEngine[t] = "commands"
            /\ pc[t] \notin {"seq", "seqRun"}
            /\ err[t] = Nil
            /\ SeqInvoked(t) = NonEmpty(project[t].Sequential)
            /\ Len(results[t]) >= Cardinality(SeqInvoked(t))
            /\ \A k \in 1 .. Cardinality(SeqInvoked(t)) : results[t][k].Success
            /\ \A i \in Launched(t) : \A k \in 1 .. Cardinality(SeqInvoked(t)) :
                   task[t][i] # "ready" => results[t][k].EndTime <= taskRes[t][i].StartTime

\* an async command is running behind two sequential successes
C25_Witness ==
    \E t \in Triggers :
        /\ pc[t] \in {"spawn", "wait"}
        /\ Cardinality(SeqInvoked(t)) = 2
        /\ \E i \in DOMAIN task[t] : task[t][i] = "running"

\* what a bash process can end as, for any command
AllOutcomes == CmdOutcomes \cup LongOutcomes

\* C29: a command that ends with an error (non-zero exit, or no launch) gives a
\* result with Success false, the error's text as Error and a non-empty Output
\* (the error's text when nothing was captured); a command that ends without
\* error gives Success true and an empty Error.  A failed command reaches the
\* caller only as such a result: an error returned by ExecuteCommands comes with
\* the failed result as the last of the list.
C29_ResultClassification ==
    /\ \A o \in AllOutcomes :
           LET r == executeCommand("a", o, now, now) IN
           /\ (o.err # "" =>
                   /\ ~r.Success
                   /\ r.Error = o.err
                   /\ r.Output # ""
                   /\ r.Output = IF o.out = "" THEN o.err ELSE o.out)
           /\ (o.err = "" => r.Success /\ r.Error = "" /\ r.Output = o.out)
    /\ \A t \in Triggers :
           /\ \A r \in Produced(t) :
                  /\ (r.Success <=> r.Error = "")
                  /\ (~r.Success => r.Output # "" /\ TextLen(r.Output) > 0)
           /\ (CommandsReturned(t) /\ err[t] # Nil) =>
                  /\ results[t] # <<>>
                  /\ ~results[t][Len(results[t])].Success

\* a failed command without captured output: the error text is its output
C29_Witness ==
    \E t \in Triggers : \E r \in Produced(t) :
        /\ ~r.Success
        /\ r.Error = "exit status 1"
        /\ r.Output = "exit status 1"

\* C30: an empty command string, sequential or async, starts no process and
\* gives no result; it is not a failure; and a call that returns without error
\* returns as many results as there are non-empty sequential and non-empty
\* async commands.
C30_EmptyCommandsSkipped ==
    \A t \in Triggers : usedEngine[t] = "commands" =>
        /\ \A j \in DOMAIN project[t].Sequential :
               project[t].Sequential[j] = "" => << "seq", j >> \notin invoked[t]
        /\ \A j \in DOMAIN project[t].Async :
               project[t].Async[j] = "" =>
                   /\ << "async", j >> \notin invoked[t]
                   /\ (j \in DOMAIN task[t] => task[t][j] = "none")
        /\ \A r \in Produced(t) : r.ScriptName # ""
        /\ (CommandsReturned(t) /\ err[t] = Nil) =>
               Len(results[t]) = Cardinality(NonEmpty(project[t].Sequential))
                                 + Cardinality(NonEmpty(project[t].Async))
        /\ (CommandsReturned(t) /\ NonEmpty(project[t].Sequential) = {}
                /\ NonEmpty(project[t].Async) = {}) => (err[t] = Nil /\ results[t] = <<>>)

\* a call that returned one result for three configured entries, two of them empty
C30_Witness ==
    \E t \in Triggers :
        /\ CommandsReturned(t)
        /\ err[t] = Nil
        /\ Len(project[t].Sequential) + Len(project[t].Async) = 3
        /\ Len(results[t]) = 1
        /\ \E j \in DOMAIN project[t].Async : project[t].Async[j] = ""

\* the non-empty entries of a command list, in list order
Kept(list) == SelectSeq(list, LAMBDA c : c # "")

\* r is a result that a run of command c, or of the script at path p, can give
ResultOf(c, r) == \E o \in OutcomesOf(c) : r = executeCommand(c, o, r.StartTime, r.EndTime)
ScriptResultOf(p, r) == \E o \in CmdOutcomes : r = executeScript(p, o, r.StartTime, r.EndTime)

\* results and error of run t are what the engine gives for run t's own project
\* when nothing else runs: the sequential (or script) results in list order up
\* to the first failure, which is the error; without a failure, then one result
\* per non-empty async command, in any order
AloneResults(t) ==
    LET res == results[t]
        n == Len(res)
    IN  IF usedEngine[t] = "none"
        THEN res = <<>> /\ err[t] = Nil
        ELSE IF usedEngine[t] = "commands"
        THEN LET S == Kept(project[t].Sequential)
                 A == Kept(project[t].Async)
             IN  /\ \A k \in 1 .. n : k <= Len(S) => ResultOf(S[k], res[k])
                 /\ IF err[t] # Nil
                    THEN /\ n \in 1 .. Len(S)
                         /\ \A k \in 1 .. (n - 1) : res[k].Success
                         /\ ~res[n].Success
                         /\ err[t] = CommandFailed(res[n])
                    ELSE /\ n = Len(S) + Len(A)
                         /\ \A k \in 1 .. Len(S) : res[k].Success
                         /\ \A k \in (Len(S) + 1) .. n :
                                /\ ResultOf(res[k].ScriptName, res[k])
                                /\ Count(res[k].ScriptName, A)
                                      = Named(res[k].ScriptName, SubSeq(res, Len(S) + 1, n))
        ELSE IF scriptsFolder = Unreadable
        THEN res = <<>> /\ err[t] = GetScriptsFailed
        ELSE LET P == GetScripts(scriptsFolder) IN
             /\ n <= Len(P)
             /\ \A k \in 1 .. n : ScriptResultOf(P[k], res[k])
             /\ \A k \in 1 .. (n - 1) : res[k].Success
             /\ IF err[t] # Nil
                THEN n >= 1 /\ ~res[n].Success /\ err[t] = ScriptFailed(res[n])
                ELSE n = Len(P) /\ \A k \in 1 .. n : res[k].Success

\* the RecordExecution calls of finished run t: one per result of run t, in
\* result order, each tagged with the id of the trigger row run t created
AloneRecords(t) ==
    /\ OwnTriggerID(t)
    /\ Len(execCalls[t]) = Len(results[t])
    /\ \A i \in DOMAIN execCalls[t] :
           /\ execCalls[t][i].triggerID = triggerID[t]
           /\ execCalls[t][i].scriptName = results[t][i].ScriptName
           /\ execCalls[t][i].status = StatusOf(results[t][i])
           /\ execCalls[t][i].output = results[t][i].Output
           /\ execCalls[t][i].error = results[t][i].Error

\* the terminal card of finished run t: decided by run t's trigger, error and results
AloneTerminal(t) ==
    /\ Cardinality(TerminalSent(t)) = 1
    /\ TerminalOf(t).repo = FullRepoName(event[t])
    /\ IF usedEngine[t] = "none"
       THEN /\ TerminalOf(t).status = StatusSuccess
            /\ TerminalOf(t).message = SkippedMessage(commitMessage)
       ELSE /\ TerminalOf(t).status = ExpectedStatus(t)
            /\ TerminalOf(t).message = ExpectedMessage(t)

\* the project a run works on is the configured entry of its own trigger
OwnProject(t) ==
    usedEngine[t] # "none" => \E n \in Matches(t) : project[t] = cfgCommands[n]

AsAlone(t) ==
    /\ OwnProject(t)
    /\ (pc[t] \in {"record", "done"} => AloneResults(t))
    /\ (pc[t] = "done" => AloneRecords(t) /\ AloneTerminal(t))

\* C21: two runs interleaved in any way do not touch each other: a step changes
\* the run state of one trigger only; the triggers get different record ids;
\* and each run's result list, its execution records (one per result, all
\* tagged with its own trigger record id) and its terminal card's status and
\* message are those its own project, command outcomes and results give when
\* the run executes alone.
C21_RunsIndependent ==
    /\ [](\A t \in Triggers : AsAlone(t))
    /\ [](\A t, u \in Triggers :
             (t # u /\ triggerID[t] # NoID) => triggerID[t] # triggerID[u])
    /\ [][\A t, u \in Triggers :
             t # u => (RunAll(t)' = RunAll(t) \/ RunAll(u)' = RunAll(u))]_vars

\* both runs finished with results after their commands ran interleaved: the
\* run that was triggered second executed and recorded while the first was
\* still running, and the first run holds the later trigger record id
C21_Witness ==
    \E t, u \in Triggers :
        /\ t # u
        /\ pc[t] = "done" /\ pc[u] = "done"
        /\ execCalls[t] # <<>> /\ execCalls[u] # <<>>
        /\ triggerID[t] > triggerID[u]
        /\ t < u
        /\ project[t] = project[u]
        /\ results[t] # results[u]

\* run t has sent its terminal card and is over
Done(t) == pc[t] = "done" /\ TerminalSent(t) # {}

\* the commands of run t that were started and do not end
HungSeq(t) == { j \in SeqInvoked(t) : project[t].Sequential[j] = Forever }
HungAsync(t) == { i \in AsyncInvoked(t) : project[t].Async[i] = Forever }
Hung(t) == HungSeq(t) # {} \/ HungAsync(t) # {}

\* C26: under fair scheduling, a run whose trigger record was created
\* eventually sends its terminal card and is done, unless it has started a
\* command that never ends; every persistence and notification call returns,
\* with or without an error.
C26_RunReachesDone ==
    \A t \in Triggers : (recErr[t] = "nil") ~> (Done(t) \/ Hung(t))

\* both runs are done: one skipped an empty async entry and ran the other two
\* commands, the other ran its command as well
C26_Witness ==
    \E t, u \in Triggers :
        /\ t # u
        /\ Done(t) /\ Done(u)
        /\ recErr[t] = "nil" /\ recErr[u] = "nil"
        /\ \E i \in DOMAIN project[t].Async : project[t].Async[i] = ""
        /\ Len(results[t]) = 2
        /\ Len(execCalls[u]) >= 1

\* some configured entry of the trigger of run u holds a command that never ends
MayHang(u) ==
    \E n \in Matches(u) :
        \/ \E j \in DOMAIN cfgCommands[n].Sequential : cfgCommands[n].Sequential[j] = Forever
        \/ \E j \in DOMAIN cfgCommands[n].Async : cfgCommands[n].Async[j] = Forever

\* run t stays where the command that never ends was started
Stalled(t) ==
    /\ \A j \in HungSeq(t) : pc[t] = "seqRun" /\ seqIdx[t] = j
    /\ \A i \in HungAsync(t) : pc[t] \in {"spawn", "wait"} /\ task[t][i] = "running"
    /\ Len(results[t]) = Cardinality(SeqInvoked(t) \ HungSeq(t))
    /\ execCalls[t] = <<>>
    /\ TerminalSent(t) = {}

\* C27: a started command that never ends, sequential or async, is never
\* timed out or cancelled: its run stays in the sequential loop at that command
\* or before the return of wg.Wait(), makes no RecordExecution call and sends
\* no terminal card, ever; a run of another trigger whose commands all end
\* still reaches Done under fair scheduling.
C27_HungCommandStallsOwnRun ==
    /\ [](\A t \in Triggers : Hung(t) => Stalled(t))
    /\ \A u \in Triggers :
           (recErr[u] = "nil" /\ ~MayHang(u) /\ \E t \in Triggers \ {u} : Hung(t)) ~> Done(u)

\* a run waits on an async command that never ends, its other goroutine has
\* appended its result, and the run of the other trigger is done
C27_Witness ==
    \E t, u \in Triggers :
        /\ t # u
        /\ HungAsync(t) # {}
        /\ pc[t] = "wait"
        /\ Len(asyncResults[t]) = 1
        /\ Done(u)
        /\ invoked[u] # {}

\* the lookup of run t found an entry and the run went on to execution
Matched(t) ==
    pc[t] \in {"exec", "scripts", "scriptRun", "seq", "seqRun", "async", "spawn", "wait", "record", "done"}
        /\ Matches(t) # {}

\* C31 as stated: the configuration a run uses is an entry of cfg.Commands
\* whose organization and repo equal the trigger's, and two runs with the same
\* organization and repository name use the same sequential list and the same
\* async list.
C31_Original ==
    /\ \A t \in Triggers : Matched(t) =>
           /\ project[t].Organization = OrgName(event[t])
           /\ project[t].Repo = RepoName(event[t])
           /\ \E n \in DOMAIN cfgCommands : project[t] = cfgCommands[n]
    /\ \A t, u \in Triggers :
           (Matched(t) /\ Matched(u)
               /\ OrgName(event[t]) = OrgName(event[u])
               /\ RepoName(event[t]) = RepoName(event[u])) =>
                   /\ project[t].Sequential = project[u].Sequential
                   /\ project[t].Async = project[u].Async

\* the event is a push to the staging branch with a head commit
IsTrigger(e) == e.payload = "ok" /\ e.kind = "push" /\ e.branch = stagingBranch /\ e.head

\* the event was decoded and is not a trigger: another kind of event, a push
\* to another branch, or a push without head commit
Filtered(e) == e.payload = "ok" /\ ~IsTrigger(e)

\* nothing of a trigger exists for request t
NoTrace(t) ==
    /\ notifs[t] = <<>>
    /\ triggerID[t] = NoID
    /\ recErr[t] = "unset"
    /\ \A k \in DOMAIN triggersTable : triggersTable[k].trigger # t
    /\ invoked[t] = {}
    /\ results[t] = <<>>
    /\ execCalls[t] = <<>>
    /\ usedEngine[t] = "none"

\* C32: only a push to the configured staging branch that has a head commit
\* becomes a trigger.  A request whose event is of another kind, a push to
\* another branch or a push without head commit is answered 200 and is over:
\* no card is sent, no trigger record is created, no command is run; and any
\* card, trigger record or command belongs to a request with a trigger event.
C32_OnlyStagingPushTriggers ==
    \A t \in Triggers :
        /\ (Filtered(event[t]) /\ pc[t] \notin {"absent", "arrive"}) =>
               /\ pc[t] = "ignored"
               /\ response[t].code = StatusOK
               /\ NoTrace(t)
        /\ (~IsTrigger(event[t]) => NoTrace(t))
        /\ (pc[t] = "ignored" => Filtered(event[t]))

\* a push to another branch was answered 200 "branch ignored"
C32_Witness ==
    \E t \in Triggers :
        /\ event[t].kind = "push"
        /\ event[t].branch # stagingBranch
        /\ event[t].head
        /\ response[t] = [code |-> StatusOK, body |-> "branch ignored"]
        /\ pc[t] = "ignored"

\* run u is in flight and waits for no command that never ends
Live(u) == pc[u] \notin {"absent", "rejected", "ignored", "aborted", "done"} /\ ~Hung(u)

\* C33: nothing orders or excludes the runs of different triggers: a run in
\* flight always has a step of its own to take, whatever the other runs are
\* doing; in particular it enters execution while another run is executing
\* and sends its terminal card while a run accepted earlier is still
\* executing.
C33_NoCrossTriggerControl ==
    \A u \in Triggers :
        /\ (Live(u) => ENABLED << Next >>_(RunAll(u)))
        /\ (pc[u] = "exec" => ENABLED StartExecution(u))
        /\ ((pc[u] = "record" /\ recIdx[u] > Len(results[u])) => ENABLED NotifyTerminal(u))

\* two runs execute at the same time: the run accepted first is still at its
\* first command while the run accepted later has all its results
C33_Witness ==
    \E t, u \in Triggers :
        /\ triggerID[t] # NoID
        /\ triggerID[t] < triggerID[u]
        /\ pc[t] = "seqRun" /\ results[t] = <<>>
        /\ pc[u] = "wait"
        /\ Len(asyncResults[u]) = 1
        /\ ENABLED WaitReturn(u)

\* nothing of the background task of run t has happened
NotStarted(t) ==
    /\ project[t] = NoProject
    /\ usedEngine[t] = "none"
    /\ invoked[t] = {}
    /\ results[t] = <<>>
    /\ execCalls[t] = <<>>
    /\ TerminalSent(t) = {}

\* C34: the answer 200 "webhook received" is written after the trigger record
\* was created and before the background task is started: when it is written
\* no command of the trigger has started, no execution record was written and
\* no terminal card was sent, and everything the background task does comes
\* after it.  The handler does not wait for the background task: the answer
\* can be written as soon as the trigger record exists, and it never changes
\* afterwards.
C34_AckBeforeBackground ==
    /\ [](\A t \in Triggers :
             /\ (Acknowledged(t) => recErr[t] = "nil" /\ OwnTriggerID(t))
             /\ (pc[t] \in {"arrive", "accepted", "notified", "recorded", "aborted", "acked"}
                    => NotStarted(t))
             /\ (~NotStarted(t) => Acknowledged(t))
             /\ (pc[t] = "recorded" => ~Answered(t) /\ ENABLED Respond(t)))
    /\ [][\A t \in Triggers :
             /\ (Answered(t) => response'[t] = response[t])
             /\ (~Acknowledged(t) /\ Acknowledged(t)' =>
                    pc[t] = "recorded" /\ pc'[t] = "acked" /\ NotStarted(t)')]_vars

\* an acknowledged request whose background task has started a command and
\* has not finished it
C34_Witness ==
    \E t \in Triggers :
        /\ Acknowledged(t)
        /\ pc[t] = "seqRun"
        /\ invoked[t] # {}
        /\ results[t] = <<>>
        /\ TerminalSent(t) = {}

\* C35: whenever ExecuteCommands has returned an error, the returned list is
\* not empty, its last entry is its only entry with Success false, and the
\* error is "command failed: <name> - <error>" with the name and error text
\* of that last entry.
C35_ErrorMeansLastFailed ==
    \A t \in Triggers :
        (CommandsReturned(t) /\ err[t] # Nil) =>
            LET n == Len(results[t]) IN
            /\ n >= 1
            /\ ~results[t][n].Success
            /\ \A k \in 1 .. (n - 1) : results[t][k].Success
            /\ Cardinality({ k \in 1 .. n : ~results[t][k].Success }) = 1
            /\ err[t] = << "command failed: ", results[t][n].ScriptName, " - ", results[t][n].Error >>
            /\ results[t][n].Error # ""

\* the second sequential command failed: two results, the error names the second
C35_Witness ==
    \E t \in Triggers :
        /\ CommandsReturned(t)
        /\ err[t] # Nil
        /\ Len(results[t]) = 2
        /\ results[t][1].Success
        /\ ~results[t][2].Success
        /\ Len(project[t].Async) > 0

\* the failure message without a reason block
BareFailure == commitMessage \o Text(" (FAILED)")

\* run t is over and its terminal card is the failure card
FailureSent(t) == pc[t] = "done" /\ TerminalSent(t) # {} /\ TerminalOf(t).status = StatusFailure

\* C36 as stated: every run that ended with the failure card has a failed
\* result in its result list, a message that is more than the commit message
\* with " (FAILED)", and a RecordExecution call with status "failed".
C36_Original ==
    \A t \in Triggers :
        FailureSent(t) =>
            /\ AnyFailed(results[t])
            /\ TerminalOf(t).message # BareFailure
            /\ \E i \in DOMAIN execCalls[t] : execCalls[t][i].status = "failed"

\* C36 amended: a run that ended with the failure card has a failed result, a
\* reason block in the message and one RecordExecution call with status
\* "failed", unless the error came from the scripts-folder runner failing to
\* read the folder: then the result list is empty, the message is the commit
\* message with " (FAILED)" and nothing else, and no RecordExecution call is
\* made.
C36_ReasonUnlessFolderUnreadable ==
    \A t \in Triggers :
        FailureSent(t) =>
            IF usedEngine[t] = "scripts" /\ scriptsFolder = Unreadable
            THEN /\ results[t] = <<>>
                 /\ err[t] = GetScriptsFailed
                 /\ TerminalOf(t).message = BareFailure
                 /\ execCalls[t] = <<>>
            ELSE /\ AnyFailed(results[t])
                 /\ TerminalOf(t).message = FailureMessage(commitMessage, results[t])
                 /\ TerminalOf(t).message # BareFailure
                 /\ Len(TerminalOf(t).message) > Len(BareFailure)
                 /\ Cardinality({ i \in DOMAIN execCalls[t] : execCalls[t][i].status = "failed" }) = 1

\* the matched project has no commands and the scripts folder cannot be read:
\* the failure card was sent without a reason block and without any record
C36_Witness ==
    \E t \in Triggers :
        /\ FailureSent(t)
        /\ Matches(t) # {}
        /\ usedEngine[t] = "scripts"
        /\ results[t] = <<>>
        /\ TerminalOf(t).message = BareFailure
        /\ execCalls[t] = <<>>

\* the entry matched by run t has no sequential and no async command
NoCommands(t) == Len(project[t].Sequential) = 0 /\ Len(project[t].Async) = 0

\* the engine call of run t has been made
EngineCalled(t) ==
    pc[t] \in {"scripts", "scriptRun", "seq", "seqRun", "async", "spawn", "wait", "record", "done"}
        /\ Matches(t) # {}

\* C37: a run whose matched entry has an empty sequential list and an empty
\* async list does not take the skip path and does not call ExecuteCommands:
\* it calls ExecuteScripts on the scripts folder, and its terminal card is the
\* failure card exactly when that call returned an error (folder unreadable or
\* a script failed), the success card with the unchanged commit message
\* otherwise.  A matched entry with a command goes to ExecuteCommands.
C37_EmptyEntryRunsScripts ==
    \A t \in Triggers :
        /\ (pc[t] = "skip" => Matches(t) = {})
        /\ EngineCalled(t) =>
               /\ (NoCommands(t) <=> usedEngine[t] = "scripts")
               /\ (~NoCommands(t) <=> usedEngine[t] = "commands")
        /\ (EngineCalled(t) /\ NoCommands(t)) =>
               /\ \A x \in invoked[t] : x[1] = "script"
               /\ \A k \in DOMAIN results[t] :
                      /\ scriptsFolder # Unreadable
                      /\ k <= Len(scriptsFolder)
                      /\ results[t][k].ScriptName = scriptsFolder[k]
               /\ (pc[t] \in {"record", "done"} =>
                      (err[t] # Nil <=> (scriptsFolder = Unreadable \/ AnyFailed(results[t]))))
               /\ (pc[t] = "done" =>
                      /\ Cardinality(TerminalSent(t)) = 1
                      /\ TerminalOf(t).status = (IF err[t] # Nil THEN StatusFailure ELSE StatusSuccess)
                      /\ TerminalOf(t).message =
                             (IF err[t] # Nil THEN FailureMessage(commitMessage, results[t])
                              ELSE commitMessage))

\* a matched entry without commands: the script of the folder was run and
\* failed, and the failure card names it
C37_Witness ==
    \E t \in Triggers :
        /\ pc[t] = "done"
        /\ Matches(t) # {}
        /\ NoCommands(t)
        /\ usedEngine[t] = "scripts"
        /\ Len(results[t]) = 1
        /\ ~results[t][1].Success
        /\ TerminalOf(t).status = StatusFailure

\* the results with their end times set to the zero time
ZeroEnds(res) == [i \in DOMAIN res |-> [res[i] EXCEPT !.EndTime = ZeroTime]]

\* C38: every result the engine produces, and so every result of the list
\* handed to processWebhookAsync, has a non-zero EndTime: allCompleted is true
\* and the "has no end time" branch is not taken.  The records written and the
\* terminal card do not depend on the end times: with zero end times the status,
\* name, output and error of every record and the status and message of the
\* terminal card would be the same.
C38_EndTimeNeverZero ==
    \A t \in Triggers :
        /\ \A r \in Produced(t) : r.EndTime # ZeroTime /\ r.EndTime >= executionStartTime[t]
        /\ (EngineReturned(t) => allCompleted(results[t]))
        /\ \A i \in DOMAIN execCalls[t] :
               LET z == ZeroEnds(results[t])[i] IN
               /\ execCalls[t][i].scriptName = z.ScriptName
               /\ execCalls[t][i].status = StatusOf(z)
               /\ execCalls[t][i].output = z.Output
               /\ execCalls[t][i].error = z.Error
        /\ (pc[t] = "done" /\ usedEngine[t] # "none") =>
               /\ Len(execCalls[t]) = Len(results[t])
               /\ TerminalOf(t).status = ExpectedStatus(t)
               /\ TerminalOf(t).message =
                      (IF err[t] # Nil THEN FailureMessage(commitMessage, ZeroEnds(results[t]))
                       ELSE commitMessage)

\* a finished run with two results that ended at different readings of the clock
C38_Witness ==
    \E t \in Triggers :
        /\ pc[t] = "done"
        /\ Len(results[t]) = 2
        /\ results[t][1].EndTime # results[t][2].EndTime
        /\ allCompleted(results[t])
        /\ Len(execCalls[t]) = 2

\* C39: buildCard puts "unknown/repo" in the title for an empty repository
\* name and "unknown" in the author line for an empty author, and leaves a
\* given name or author as it is; the header template is blue for Started,
\* green for Success and red for Failure, and the status texts of the three
\* are "Workflow Started", "Success" and "Failure": cards of two different
\* statuses among the three differ in colour and in status text.
C39_CardDefaultsAndColours ==
    \A i \in DOMAIN notifs[1] :
        LET n == notifs[1][i]
            known == { StatusStarted, StatusSuccess, StatusFailure }
        IN
        /\ n.card = buildCard(n.status, n.repo, n.author, commitID, n.message, n.branch, commitTime)
        /\ n.card.title[3] = (IF n.repo = "" THEN "unknown/repo" ELSE n.repo)
        /\ n.card.elements[1][4] = (IF n.author = "" THEN "unknown" ELSE n.author)
        /\ n.card.title[3] # "" /\ n.card.elements[1][4] # ""
        /\ (n.status = StatusStarted => n.card.template = "blue" /\ n.card.elements[1][2] = "Workflow Started")
        /\ (n.status = StatusSuccess => n.card.template = "green" /\ n.card.elements[1][2] = "Success")
        /\ (n.status = StatusFailure => n.card.template = "red" /\ n.card.elements[1][2] = "Failure")
        /\ \A j \in DOMAIN notifs[1] :
               (n.status \in known /\ notifs[1][j].status \in known /\ n.status # notifs[1][j].status) =>
                   /\ n.card.template # notifs[1][j].card.template
                   /\ n.card.elements[1][2] # notifs[1][j].card.elements[1][2]
                   /\ n.card.title[1] # notifs[1][j].card.title[1]

\* a success card built for an empty repository name and an empty author,
\* after a failure card built for a named repository and author
C39_Witness ==
    /\ Len(notifs[1]) = 2
    /\ notifs[1][1].status = StatusFailure
    /\ notifs[1][1].repo # "" /\ notifs[1][1].author # ""
    /\ notifs[1][2].status = StatusSuccess
    /\ notifs[1][2].repo = "" /\ notifs[1][2].author = ""
    /\ notifs[1][2].card.title[3] = "unknown/repo"
    /\ notifs[1][2].card.elements[1][4] = "unknown"

====
